---------------------------- MODULE Spec2Model ----------------------------
(***************************************************************************)
(* A model of the code-generation translator of the cobalt compiler:       *)
(*   crates/compiler/src/compiler/codegen/translate/cond.rs   (IF, conds)  *)
(*   crates/compiler/src/compiler/codegen/translate/memory.rs (MOVE, loads)*)
(*                                                                         *)
(* The state is one FuncTranslator: the IR it has emitted so far (a log of *)
(* builder events, in emission order), the blocks it created, the current  *)
(* block, the per-function value caches and the error it stopped with.     *)
(* An IR value is named by the index in the log of the instruction that    *)
(* defines it.                                                             *)
(***************************************************************************)
EXTENDS Integers, Sequences, FiniteSets, TLC

VARIABLES
    ft,      \* the FuncTranslator (builder log, blocks, caches, error)
    pre,     \* the FuncTranslator as it was when the last operation began
    input,   \* the input of the last operation (a statement, a condition, ...)
    phase,   \* "idle" before any operation, else the last operation's name
    budget   \* statement nodes the function body may still contain

vars == <<ft, pre, input, phase, budget>>

----------------------------------------------------------------------------
(* Bounds of the model.                                                    *)

\* Statement nodes (MOVE, GO TO, IF; nested ones counted) in a function body.
MaxNodes == 4
\* Combinator nodes (Not, And, Or) in a condition tree.
MaxCondNodes == 3
\* Loader calls and statements in one function body of SpecLoad.
MaxLoads == 3
\* Largest 1-based span start index and span length drawn as a literal.
MaxSpan == 3

----------------------------------------------------------------------------
(* The read-only context: data manager, PICs, string-literal table.        *)

\* A PIC: its kind and its comp_size() (strings: characters + NUL).
Pic(kind, size) == [kind |-> kind, size |-> size]

is_str_pic(pic) == pic.kind = "str"

is_float_pic(pic) == pic.kind = "float"

comp_size(pic) == pic.size

\* The symbols of the program under translation; D, E, G and H are further
\* variables that share a PIC with another one.
Syms == {"A", "B", "C", "I", "N", "F"}

sym_pic(sym) ==
    CASE sym = "A" -> Pic("str", 11)
      [] sym = "B" -> Pic("str", 6)
      [] sym = "C" -> Pic("str", 2)
      [] sym = "I" -> Pic("int", 8)
      [] sym = "N" -> Pic("int", 8)
      [] sym = "F" -> Pic("float", 8)
      [] sym = "D" -> Pic("str", 3)
      [] sym = "E" -> Pic("str", 3)
      [] sym = "G" -> Pic("str", 2)
      [] sym = "H" -> Pic("float", 8)

sym_data_id(sym) ==
    CASE sym = "A" -> 1
      [] sym = "B" -> 2
      [] sym = "C" -> 3
      [] sym = "I" -> 4
      [] sym = "N" -> 5
      [] sym = "F" -> 6
      [] sym = "D" -> 7
      [] sym = "E" -> 8
      [] sym = "G" -> 9
      [] sym = "H" -> 10

\* The interned string literals, as bytes without NUL: "HI", "X", "HELLO!".
StrIds == {1, 2, 3}

str_lits(sid) ==
    CASE sid = 1 -> <<72, 73>>
      [] sid = 2 -> <<88>>
      [] sid = 3 -> <<72, 69, 76, 76, 79, 33>>

str_data_id(sid) == 10 + sid

\* parser::Value: a variable or a literal.  Floats are kept as an index v
\* (the model never computes with them).
Var(sym) == [k |-> "var", s |-> sym, v |-> 0]

IntLit(i) == [k |-> "int", s |-> "", v |-> i]

FloatLit(f) == [k |-> "float", s |-> "", v |-> f]

StrLit(sid) == [k |-> "strlit", s |-> "", v |-> sid]

is_float(val) ==
    IF val.k = "var" THEN is_float_pic(sym_pic(val.s)) ELSE val.k = "float"

is_str(val) ==
    IF val.k = "var" THEN is_str_pic(sym_pic(val.s)) ELSE val.k = "strlit"

\* The target's pointer type: both supported ISAs are 64-bit.
ptr_type == "I64"

----------------------------------------------------------------------------
(* The function builder.                                                   *)

\* One builder event.  args: operand values; imm: immediate / data id;
\* tag: condition code or callee; blks: blocks named; in: the current block.
Ev(op, ty, args, imm, tag, blks, in) ==
    [op |-> op, ty |-> ty, args |-> args, imm |-> imm, tag |-> tag,
     blks |-> blks, in |-> in]

\* A new FuncTranslator: the entry block 0 is current, nothing emitted.
Fresh ==
    [log |-> << >>, nblk |-> 1, cur |-> 0,
     litv |-> {}, cglitv |-> {}, sptr |-> {}, gv |-> {},
     err |-> "", ret |-> 0, ret2 |-> 0, jumped |-> FALSE]

Failed(t) == t.err # ""

\* miette::bail!(msg) / a `?` that propagates: nothing after it runs.
Bail(t, msg) == IF Failed(t) THEN t ELSE [t EXCEPT !.err = msg]

SetRet(t, v) == IF Failed(t) THEN t ELSE [t EXCEPT !.ret = v]

SetRet2(t, v, w) == IF Failed(t) THEN t ELSE [t EXCEPT !.ret = v, !.ret2 = w]

\* self.builder.ins().<op>(...): append to the current block; the value it
\* defines is its index in the log.
Ins(t, op, ty, args, imm, tag, blks) ==
    IF Failed(t) THEN t
    ELSE [t EXCEPT !.log = Append(@, Ev(op, ty, args, imm, tag, blks, t.cur)),
                   !.ret = Len(t.log) + 1]

create_block(t) ==
    IF Failed(t) THEN t
    ELSE [t EXCEPT !.log = Append(@, Ev("create_block", "", << >>, 0, "",
                                        <<t.nblk>>, t.cur)),
                   !.nblk = @ + 1, !.ret = t.nblk]

seal_block(t, b) ==
    IF Failed(t) THEN t
    ELSE [t EXCEPT !.log = Append(@, Ev("seal_block", "", << >>, 0, "",
                                        <<b>>, t.cur))]

switch_to_block(t, b) ==
    IF Failed(t) THEN t
    ELSE [t EXCEPT !.log = Append(@, Ev("switch_to_block", "", << >>, 0, "",
                                        <<b>>, t.cur)),
                   !.cur = b]

\* An instruction whose one operand is the value the last call returned.
InsRet(t, op, ty, imm, tag) == Ins(t, op, ty, <<t.ret>>, imm, tag, << >>)

\* The value caches (self.values): sets of key/value entries.
CacheHas(cache, key) == \E e \in cache : e.key = key

CacheGet(cache, key) == (CHOOSE e \in cache : e.key = key).val

CachePut(cache, key, val) == cache \cup {[key |-> key, val |-> val]}

\* self.values.insert_*(key, value), the value being the one just returned.
insert_gv(t, data_id) ==
    IF Failed(t) THEN t ELSE [t EXCEPT !.gv = CachePut(@, data_id, t.ret)]

insert_static_ptr(t, data_id) ==
    IF Failed(t) THEN t ELSE [t EXCEPT !.sptr = CachePut(@, data_id, t.ret)]

insert_cg_litv(t, cglit) ==
    IF Failed(t) THEN t ELSE [t EXCEPT !.cglitv = CachePut(@, cglit, t.ret)]

insert_litv(t, lit) ==
    IF Failed(t) THEN t ELSE [t EXCEPT !.litv = CachePut(@, lit, t.ret)]

----------------------------------------------------------------------------
(* memory.rs: the value loaders.                                           *)

load_gv(t, data_id) ==
    IF Failed(t) THEN t
    ELSE IF CacheHas(t.gv, data_id) THEN SetRet(t, CacheGet(t.gv, data_id))
    ELSE insert_gv(Ins(t, "declare_data_in_func", "", << >>, data_id, "", << >>),
                   data_id)

\* A static pointer materialized anew at every use.
load_static_ptr_uncached(t, data_id) ==
    IF Failed(t) THEN t
    ELSE InsRet(load_gv(t, data_id), "global_value", ptr_type, data_id, "")

load_static_ptr(t, data_id) ==
    IF Failed(t) THEN t
    ELSE IF CacheHas(t.sptr, data_id) THEN SetRet(t, CacheGet(t.sptr, data_id))
    ELSE insert_static_ptr(
             InsRet(load_gv(t, data_id), "global_value", ptr_type, data_id, ""),
             data_id)

load_cg_lit(t, cglit) ==
    IF Failed(t) THEN t
    ELSE IF CacheHas(t.cglitv, cglit) THEN SetRet(t, CacheGet(t.cglitv, cglit))
    ELSE insert_cg_litv(
             IF cglit.k = "Char"
             THEN Ins(t, "iconst", "I8", << >>, cglit.v, "", << >>)
             ELSE Ins(t, "iconst", "I64", << >>, cglit.v, "", << >>),
             cglit)

\* A literal materialized anew at every use.
load_lit_uncached(t, lit) ==
    IF Failed(t) THEN t
    ELSE CASE lit.k = "strlit" -> load_static_ptr(t, str_data_id(lit.v))
           [] lit.k = "int" -> Ins(t, "iconst", "I64", << >>, lit.v, "", << >>)
           [] lit.k = "float" -> Ins(t, "f64const", "F64", << >>, lit.v, "", << >>)

load_lit(t, lit) ==
    IF Failed(t) THEN t
    ELSE IF CacheHas(t.litv, lit) THEN SetRet(t, CacheGet(t.litv, lit))
    ELSE insert_litv(
             CASE lit.k = "strlit" -> load_static_ptr(t, str_data_id(lit.v))
               [] lit.k = "int" -> Ins(t, "iconst", "I64", << >>, lit.v, "", << >>)
               [] lit.k = "float" -> Ins(t, "f64const", "F64", << >>, lit.v, "", << >>),
             lit)

load_var(t, sym) ==
    IF is_str_pic(sym_pic(sym)) THEN load_static_ptr(t, sym_data_id(sym))
    ELSE IF is_float_pic(sym_pic(sym))
    THEN InsRet(load_static_ptr(t, sym_data_id(sym)), "load", "F64", 0, "")
    ELSE InsRet(load_static_ptr(t, sym_data_id(sym)), "load", "I64", 0, "")

load_value(t, val) ==
    IF val.k = "var" THEN load_var(t, val.s) ELSE load_lit(t, val)

----------------------------------------------------------------------------
(* cond.rs: conditions.  A condition is [op, l, r]: a comparison of two    *)
(* values, or Not (l only), And, Or of conditions.                         *)

Cmp(op, l, r) == [op |-> op, l |-> l, r |-> r]

Not(c) == [op |-> "Not", l |-> c]

And(l, r) == [op |-> "And", l |-> l, r |-> r]

Or(l, r) == [op |-> "Or", l |-> l, r |-> r]

CmpOps == {"Eq", "Ge", "Le", "Gt", "Lt"}

StrNonStrMsg == "Cannot compare a string variable to a non-string variable."

StrOrdMsg == "Cannot ordinally compare string variables."

verify_binary_eq_cmp(left, right) ==
    IF (is_str(left) /\ ~is_str(right)) \/ (~is_str(left) /\ is_str(right))
    THEN StrNonStrMsg
    ELSE ""

verify_binary_ord_cmp(left, right) ==
    IF is_str(left) \/ is_str(right) THEN StrOrdMsg ELSE ""

\* The first diagnostic of two checks run in order ("" when both pass).
FirstMsg(m1, m2) == IF m1 # "" THEN m1 ELSE m2

\* "" when the condition is sane, else the diagnostic.
\* A verification that looks at a comparison only when it is the whole
\* condition.
verify_cond_shallow(cond) ==
    CASE cond.op = "Eq" -> verify_binary_eq_cmp(cond.l, cond.r)
      [] cond.op \in {"Ge", "Le", "Gt", "Lt"} -> verify_binary_ord_cmp(cond.l, cond.r)
      [] OTHER -> ""

RECURSIVE verify_cond(_)
verify_cond(cond) ==
    CASE cond.op = "Eq" -> verify_binary_eq_cmp(cond.l, cond.r)
      [] cond.op \in {"Ge", "Le", "Gt", "Lt"} -> verify_binary_ord_cmp(cond.l, cond.r)
      [] cond.op = "Not" -> verify_cond(cond.l)
      [] cond.op \in {"And", "Or"} ->
            FirstMsg(verify_cond(cond.l), verify_cond(cond.r))

\* `if !x.is_float() { x_val = fcvt_from_sint(F64, x_val) }`: the value
\* returned is the converted one, or x_val as it was.
fcvt_if(t, convert, x_val) ==
    IF convert
    THEN Ins(t, "fcvt_from_sint", "F64", <<x_val>>, 0, "", << >>)
    ELSE SetRet(t, x_val)

\* translate_cond_comp, last step: the comparison itself, by operand kind.
\* The right value is the one the step before returned.
cond_comp_emit(t4, l, r, int_cc, float_cc, l_val) ==
    IF is_str(l) \/ is_str(r)
    THEN IF int_cc = "Equal" /\ float_cc = "Equal"
         THEN Ins(t4, "call", "I8", <<l_val, t4.ret>>, 0, "strcmp", << >>)
         ELSE Bail(t4, "panic: assertion failed")
    ELSE IF is_float(l) \/ is_float(r)
    THEN Ins(t4, "fcmp", "I8", <<l_val, t4.ret>>, 0, float_cc, << >>)
    ELSE Ins(t4, "icmp", "I8", <<l_val, t4.ret>>, 0, int_cc, << >>)

\* A float comparison that converts its right side whatever its kind.
cond_comp_cvt_r_always(t3, l, r, int_cc, float_cc, r_val) ==
    cond_comp_emit(
        fcvt_if(t3, is_float(l) \/ is_float(r), r_val),
        l, r, int_cc, float_cc, t3.ret)

\* translate_cond_comp: a float comparison converts a non-float right side.
cond_comp_cvt_r(t3, l, r, int_cc, float_cc, r_val) ==
    cond_comp_emit(
        fcvt_if(t3, (is_float(l) \/ is_float(r)) /\ ~is_float(r), r_val),
        l, r, int_cc, float_cc, t3.ret)

\* translate_cond_comp: a float comparison converts a non-float left side.
cond_comp_cvt_l(t2, l, r, int_cc, float_cc, l_val) ==
    cond_comp_cvt_r(
        fcvt_if(t2, (is_float(l) \/ is_float(r)) /\ ~is_float(l), l_val),
        l, r, int_cc, float_cc, t2.ret)

\* translate_cond_comp: the right side is loaded after the left one.
cond_comp_load_r(t1, l, r, int_cc, float_cc) ==
    cond_comp_cvt_l(load_value(t1, r), l, r, int_cc, float_cc, t1.ret)

translate_cond_comp(t, l, r, int_cc, float_cc) ==
    cond_comp_load_r(load_value(t, l), l, r, int_cc, float_cc)

\* A binary instruction on l_val and the value the last call returned.
InsBin(t, op, l_val) == Ins(t, op, "", <<l_val, t.ret>>, 0, "", << >>)

RECURSIVE translate_cond_eval(_, _)

\* A negation by increment.
translate_cond_not_incr(t, inner) ==
    InsRet(translate_cond_eval(t, inner), "iadd_imm", "", 1, "")

translate_cond_not(t, inner) ==
    InsRet(translate_cond_eval(t, inner), "bxor_imm", "", 1, "")

\* A conjunction that does not translate its right operand.
cond_and_rhs_skipped(t1, r) == InsBin(t1, "band", t1.ret)

\* translate_cond_and: the right operand, then the band of both results.
cond_and_rhs(t1, r) == InsBin(translate_cond_eval(t1, r), "band", t1.ret)

translate_cond_and(t, l, r) == cond_and_rhs(translate_cond_eval(t, l), r)

\* translate_cond_or: the right operand, then the bor of both results.
cond_or_rhs(t1, r) == InsBin(translate_cond_eval(t1, r), "bor", t1.ret)

translate_cond_or(t, l, r) == cond_or_rhs(translate_cond_eval(t, l), r)

translate_cond_eval(t, cond) ==
    IF Failed(t) THEN t
    ELSE IF verify_cond(cond) # "" THEN Bail(t, verify_cond(cond))
    ELSE CASE cond.op = "Eq" ->
                translate_cond_comp(t, cond.l, cond.r, "Equal", "Equal")
           [] cond.op = "Ge" ->
                translate_cond_comp(t, cond.l, cond.r,
                    "SignedGreaterThanOrEqual", "GreaterThanOrEqual")
           [] cond.op = "Le" ->
                translate_cond_comp(t, cond.l, cond.r,
                    "SignedLessThanOrEqual", "LessThanOrEqual")
           [] cond.op = "Gt" ->
                translate_cond_comp(t, cond.l, cond.r,
                    "SignedGreaterThan", "GreaterThan")
           [] cond.op = "Lt" ->
                translate_cond_comp(t, cond.l, cond.r,
                    "SignedLessThan", "LessThan")
           [] cond.op = "Not" -> translate_cond_not(t, cond.l)
           [] cond.op = "And" -> translate_cond_and(t, cond.l, cond.r)
           [] cond.op = "Or" -> translate_cond_or(t, cond.l, cond.r)

----------------------------------------------------------------------------
(* memory.rs: MOVE.  A span is [has, start, haslen, len]; a MoveRef is     *)
(* [sym, span]; a MoveData is [skind, lit, ref, call, dest].               *)

NoSpan == [has |-> FALSE, start |-> IntLit(0), haslen |-> FALSE, len |-> IntLit(0)]

SpanFrom(start) == [has |-> TRUE, start |-> start, haslen |-> FALSE, len |-> IntLit(0)]

SpanOf(start, len) == [has |-> TRUE, start |-> start, haslen |-> TRUE, len |-> len]

MoveRef(sym, span) == [sym |-> sym, span |-> span]

\* An intrinsic call: its name and the IR type of its result.
IntrinsicCall(name, ret) == [name |-> name, ret |-> ret]

NoCall == IntrinsicCall("", "")

MoveLit(lit, dest) ==
    [skind |-> "lit", lit |-> lit, ref |-> MoveRef("I", NoSpan), call |-> NoCall,
     dest |-> dest]

MoveVar(src, dest) ==
    [skind |-> "ref", lit |-> IntLit(0), ref |-> src, call |-> NoCall, dest |-> dest]

MoveIntrinsic(call, dest) ==
    [skind |-> "intrinsic", lit |-> IntLit(0), ref |-> MoveRef("I", NoSpan),
     call |-> call, dest |-> dest]

SpanNonStrMsg == "Cannot reference a span within non-string variable."

SpanStartMsg == "Value of span start index must be of type integer."

SpanLenMsg == "Value of span length must be of type integer."

\* MoveRef::validate: "" when valid, else the diagnostic.
validate(ref, pic) ==
    IF ref.span.has
    THEN IF ~is_str_pic(pic) THEN SpanNonStrMsg
         ELSE IF is_float(ref.span.start) \/ is_str(ref.span.start) THEN SpanStartMsg
         ELSE IF ref.span.haslen /\ (is_float(ref.span.len) \/ is_str(ref.span.len))
         THEN SpanLenMsg
         ELSE ""
    ELSE ""

has_static_length_of(ref, len) ==
    /\ ref.span.has
    /\ ref.span.haslen
    /\ ref.span.len.k = "int"
    /\ ref.span.len.v = len

\* Pic::verify_lit: the literal's kind is the PIC's, and a string literal
\* fits with its NUL.
verify_lit(pic, lit) ==
    CASE lit.k = "int" -> pic.kind = "int"
      [] lit.k = "float" -> pic.kind = "float"
      [] lit.k = "strlit" ->
            is_str_pic(pic) /\ Len(str_lits(lit.v)) + 1 <= comp_size(pic)

\* Pic::fits_within_comp: would a full-buffer copy from `other` into this
\* PIC be in bounds?
fits_within_comp(self, other) == comp_size(other) <= comp_size(self)

\* An instruction on the value the last call returned and r_val.
InsBinR(t, op, ty, r_val) == Ins(t, op, ty, <<t.ret, r_val>>, 0, "", << >>)

\* load_span returns (idx, len): len is the value the last step returned.
load_span_ret(t, idx) == SetRet2(t, idx, t.ret)

\* An open span whose length counts the NUL terminator.
load_span_len_nul(t2, pic, span) ==
    load_span_ret(
        IF span.haslen
        THEN load_value(t2, span.len)
        ELSE InsBinR(Ins(t2, "iconst", "I64", << >>, comp_size(pic), "", << >>),
                     "isub", "I64", t2.ret),
        t2.ret)

\* load_span, after the 0-based start index: the explicit length, or the
\* rest of the string (the total length without NUL, minus the index).
load_span_len(t2, pic, span) ==
    load_span_ret(
        IF span.haslen
        THEN load_value(t2, span.len)
        ELSE InsBinR(Ins(t2, "iconst", "I64", << >>, comp_size(pic) - 1, "", << >>),
                     "isub", "I64", t2.ret),
        t2.ret)

\* A whole-string span one character short.
load_span_whole_short(t1, pic) ==
    load_span_ret(Ins(t1, "iconst", ptr_type, << >>, comp_size(pic) - 2, "", << >>),
                  t1.ret)

\* load_span without a span: the whole string.
load_span_whole(t1, pic) ==
    load_span_ret(Ins(t1, "iconst", ptr_type, << >>, comp_size(pic) - 1, "", << >>),
                  t1.ret)

load_span(t, pic, span) ==
    IF span.has
    THEN load_span_len(
             InsRet(load_value(t, span.start), "iadd_imm", "I64", -1, ""),
             pic, span)
    ELSE load_span_whole(Ins(t, "iconst", ptr_type, << >>, 0, "", << >>), pic)

\* The strcpy intrinsic's eight arguments, as the call sites pass them.
StrcpyCall(t, a1, a2, a3, a4, a5, a6, a7, a8) ==
    Ins(t, "call", "", <<a1, a2, a3, a4, a5, a6, a7, a8>>, 0, "strcpy", << >>)

\* translate_mov_lit_spanned, the call: dest_len_val was just returned.
mov_lit_spanned_call(t4, src_val, dest_ptr, src_span_idx, src_span_len, dest_span_idx, dest_span_len) ==
    StrcpyCall(t4, src_val, dest_ptr, src_span_len, t4.ret, src_span_idx,
               src_span_len, dest_span_idx, dest_span_len)

mov_lit_spanned_dest_len(t3, src_val, dest_len, dest_ptr, src_span_idx, src_span_len) ==
    mov_lit_spanned_call(Ins(t3, "iconst", "I64", << >>, dest_len, "", << >>),
                         src_val, dest_ptr, src_span_idx, src_span_len,
                         t3.ret, t3.ret2)

mov_lit_spanned_span(t2, src_val, dest_pic, dest_span, dest_len, dest_ptr, src_span_idx) ==
    mov_lit_spanned_dest_len(load_span(t2, dest_pic, dest_span), src_val,
                             dest_len, dest_ptr, src_span_idx, t2.ret)

mov_lit_spanned_len(t1, src_val, src_len, dest_pic, dest_span, dest_len, dest_ptr) ==
    mov_lit_spanned_span(Ins(t1, "iconst", "I64", << >>, src_len, "", << >>),
                         src_val, dest_pic, dest_span, dest_len, dest_ptr, t1.ret)

translate_mov_lit_spanned(t, src_val, src_len, dest_pic, dest_span, dest_len, dest_ptr) ==
    mov_lit_spanned_len(Ins(t, "iconst", "I64", << >>, 0, "", << >>),
                        src_val, src_len, dest_pic, dest_span, dest_len, dest_ptr)

\* translate_mov_lit, the unspanned copy: the assertion, then the memcpy of
\* the size just materialized.
mov_lit_memcpy(t3, src_size, dest_pic, dest_ptr, src_val) ==
    IF ~(src_size <= comp_size(dest_pic))
    THEN Bail(t3, "panic: assertion failed")
    ELSE Ins(t3, "call_memcpy", "", <<dest_ptr, src_val, t3.ret>>, 0, "", << >>)

\* A string copy that uses memcpy whether or not the destination is
\* spanned.
mov_lit_copy_unspanned(t2, lit, dest, dest_ptr) ==
    mov_lit_memcpy(
        Ins(t2, "iconst", ptr_type, << >>, Len(str_lits(lit.v)) + 1, "", << >>),
        Len(str_lits(lit.v)) + 1, sym_pic(dest.sym), dest_ptr, t2.ret)

\* translate_mov_lit, a string longer than one character: the source
\* literal was just loaded.
mov_lit_copy(t2, lit, dest, dest_ptr) ==
    IF dest.span.has
    THEN translate_mov_lit_spanned(t2, t2.ret, Len(str_lits(lit.v)),
             sym_pic(dest.sym), dest.span, comp_size(sym_pic(dest.sym)) - 1,
             dest_ptr)
    ELSE mov_lit_memcpy(
             Ins(t2, "iconst", ptr_type, << >>, Len(str_lits(lit.v)) + 1, "", << >>),
             Len(str_lits(lit.v)) + 1, sym_pic(dest.sym), dest_ptr, t2.ret)

\* translate_mov_lit, after the destination pointer was loaded.
mov_lit_store(t1, lit, dest) ==
    IF lit.k \in {"int", "float"}
    THEN InsBinR(load_lit(t1, lit), "store", "", t1.ret)
    ELSE IF comp_size(sym_pic(dest.sym)) - 1 = 1
    THEN IF Len(str_lits(lit.v)) = 0
         THEN Bail(t1, "panic: unwrap on None")
         ELSE InsBinR(load_cg_lit(t1, [k |-> "Char", v |-> str_lits(lit.v)[1]]),
                      "store", "", t1.ret)
    ELSE mov_lit_copy(load_lit(t1, lit), lit, dest, t1.ret)

IncompatibleLitMsg == "Attempted to move incompatible literal into variable."

translate_mov_lit(t, lit, dest) ==
    IF Failed(t) THEN t
    ELSE IF validate(dest, sym_pic(dest.sym)) # ""
    THEN Bail(t, validate(dest, sym_pic(dest.sym)))
    ELSE IF ~verify_lit(sym_pic(dest.sym), lit) THEN Bail(t, IncompatibleLitMsg)
    ELSE mov_lit_store(load_static_ptr(t, sym_data_id(dest.sym)), lit, dest)

\* translate_mov_char: the 0-based offset of one side.
mov_char_offset(t, ref) ==
    IF ref.span.has
    THEN InsRet(load_value(t, ref.span.start), "iadd_imm", "I64", -1, "")
    ELSE load_cg_lit(t, [k |-> "Int", v |-> 0])

mov_char_call(t2, src_ptr, dest_ptr, src_offset) ==
    Ins(t2, "call", "", <<src_ptr, dest_ptr, src_offset, t2.ret>>, 0, "charcpy", << >>)

mov_char_dest(t1, dest, src_ptr, dest_ptr) ==
    mov_char_call(mov_char_offset(t1, dest), src_ptr, dest_ptr, t1.ret)

translate_mov_char(t, src, dest, src_ptr, dest_ptr) ==
    mov_char_dest(mov_char_offset(t, src), dest, src_ptr, dest_ptr)

\* translate_mov_ref_spanned, the call: dest_len was just returned.
mov_ref_spanned_call(t4, src_ptr, dest_ptr, src_len, src_span_idx, src_span_len, dest_span_idx, dest_span_len) ==
    StrcpyCall(t4, src_ptr, dest_ptr, src_len, t4.ret, src_span_idx,
               src_span_len, dest_span_idx, dest_span_len)

mov_ref_spanned_dest_len(t3, dest_pic, src_ptr, dest_ptr, src_span_idx, src_span_len, dest_span_idx, dest_span_len) ==
    mov_ref_spanned_call(
        Ins(t3, "iconst", "I64", << >>, comp_size(dest_pic), "", << >>),
        src_ptr, dest_ptr, t3.ret, src_span_idx, src_span_len, dest_span_idx,
        dest_span_len)

mov_ref_spanned_src_len(t2, src_pic, dest_pic, src_ptr, dest_ptr, src_span_idx, src_span_len) ==
    mov_ref_spanned_dest_len(
        Ins(t2, "iconst", "I64", << >>, comp_size(src_pic), "", << >>),
        dest_pic, src_ptr, dest_ptr, src_span_idx, src_span_len, t2.ret, t2.ret2)

mov_ref_spanned_dest(t1, dest, src_pic, dest_pic, src_ptr, dest_ptr) ==
    mov_ref_spanned_src_len(load_span(t1, dest_pic, dest.span), src_pic, dest_pic,
                            src_ptr, dest_ptr, t1.ret, t1.ret2)

translate_mov_ref_spanned(t, src, dest, src_pic, dest_pic, src_ptr, dest_ptr) ==
    mov_ref_spanned_dest(load_span(t, src_pic, src.span), dest, src_pic, dest_pic,
                         src_ptr, dest_ptr)

\* A memcpy whose pointers are exchanged.
mov_ref_memcpy_swapped(t3, src_pic, dest_pic, src_ptr, dest_ptr) ==
    IF ~(comp_size(src_pic) <= comp_size(dest_pic))
    THEN Bail(t3, "panic: assertion failed")
    ELSE Ins(t3, "call_memcpy", "", <<src_ptr, dest_ptr, t3.ret>>, 0, "", << >>)

\* translate_mov_ref, the unspanned copy: the assertion, then the memcpy of
\* the size just materialized.
mov_ref_memcpy(t3, src_pic, dest_pic, src_ptr, dest_ptr) ==
    IF ~(comp_size(src_pic) <= comp_size(dest_pic))
    THEN Bail(t3, "panic: assertion failed")
    ELSE Ins(t3, "call_memcpy", "", <<dest_ptr, src_ptr, t3.ret>>, 0, "", << >>)

IncompatibleVarMsg == "Attempted to move incompatible variable into variable."

\* translate_mov_ref, after both pointers were loaded (dest_ptr last).
mov_ref_body(t2, src, dest, src_pic, dest_pic, src_ptr) ==
    IF Failed(t2) THEN t2
    ELSE IF validate(src, src_pic) # "" THEN Bail(t2, validate(src, src_pic))
    ELSE IF validate(dest, dest_pic) # "" THEN Bail(t2, validate(dest, dest_pic))
    ELSE IF ~src.span.has /\ ~dest.span.has /\ ~fits_within_comp(src_pic, dest_pic)
    THEN Bail(t2, IncompatibleVarMsg)
    ELSE IF is_str_pic(src_pic)
    THEN IF src.span.has \/ dest.span.has
         THEN IF (has_static_length_of(src, 1) \/ has_static_length_of(dest, 1))
                 /\ comp_size(dest_pic) = 2
              THEN translate_mov_char(t2, src, dest, src_ptr, t2.ret)
              ELSE translate_mov_ref_spanned(t2, src, dest, src_pic, dest_pic,
                                             src_ptr, t2.ret)
         ELSE IF comp_size(dest_pic) = 2
              THEN translate_mov_char(t2, src, dest, src_ptr, t2.ret)
              ELSE mov_ref_memcpy(
                       Ins(t2, "iconst", ptr_type, << >>, comp_size(src_pic), "", << >>),
                       src_pic, dest_pic, src_ptr, t2.ret)
    ELSE IF is_float_pic(src_pic)
    THEN InsBinR(Ins(t2, "load", "F64", <<src_ptr>>, 0, "", << >>), "store", "", t2.ret)
    ELSE InsBinR(Ins(t2, "load", "I64", <<src_ptr>>, 0, "", << >>), "store", "", t2.ret)

mov_ref_dest_ptr(t1, src, dest) ==
    mov_ref_body(load_static_ptr(t1, sym_data_id(dest.sym)), src, dest,
                 sym_pic(src.sym), sym_pic(dest.sym), t1.ret)

translate_mov_ref(t, src, dest) ==
    mov_ref_dest_ptr(load_static_ptr(t, sym_data_id(src.sym)), src, dest)

\* The intrinsic call itself: one call instruction whose result has the
\* callee's return type.
translate_intrinsic_call(t, call) ==
    Ins(t, "call", call.ret, << >>, 0, call.name, << >>)

IntrinsicDestMsg == "Invalid destination for the return type of intrinsic function."

StrIntrinsicMsg == "String copy intrinsics are currently unimplemented."

\* A store of the call's result that does not compare the types.
move_intrinsic_store_untyped(t2, ret_type, dest, dest_pic, ret_val) ==
    IF Failed(t2) THEN t2
    ELSE IF validate(dest, dest_pic) # "" THEN Bail(t2, validate(dest, dest_pic))
    ELSE IF is_float_pic(dest_pic) \/ (~is_float_pic(dest_pic) /\ ~is_str_pic(dest_pic))
    THEN Ins(t2, "store", "", <<ret_val, t2.ret>>, 0, "", << >>)
    ELSE Bail(t2, StrIntrinsicMsg)

\* translate_move_intrinsic, after the call and the destination pointer.
move_intrinsic_store(t2, ret_type, dest, dest_pic, ret_val) ==
    IF Failed(t2) THEN t2
    ELSE IF \/ is_float_pic(dest_pic) /\ ret_type # "F64"
            \/ is_str_pic(dest_pic) /\ ret_type # ptr_type
            \/ ~is_float_pic(dest_pic) /\ ~is_str_pic(dest_pic) /\ ret_type # "I64"
    THEN Bail(t2, IntrinsicDestMsg)
    ELSE IF validate(dest, dest_pic) # "" THEN Bail(t2, validate(dest, dest_pic))
    ELSE IF is_float_pic(dest_pic) \/ (~is_float_pic(dest_pic) /\ ~is_str_pic(dest_pic))
    THEN Ins(t2, "store", "", <<ret_val, t2.ret>>, 0, "", << >>)
    ELSE Bail(t2, StrIntrinsicMsg)

move_intrinsic_dest(t1, call, dest) ==
    move_intrinsic_store(load_static_ptr(t1, sym_data_id(dest.sym)), call.ret,
                         dest, sym_pic(dest.sym), t1.ret)

translate_move_intrinsic(t, call, dest) ==
    move_intrinsic_dest(translate_intrinsic_call(t, call), call, dest)

translate_move(t, mov_data) ==
    CASE mov_data.skind = "intrinsic" ->
            translate_move_intrinsic(t, mov_data.call, mov_data.dest)
      [] mov_data.skind = "lit" -> translate_mov_lit(t, mov_data.lit, mov_data.dest)
      [] mov_data.skind = "ref" -> translate_mov_ref(t, mov_data.ref, mov_data.dest)

----------------------------------------------------------------------------
(* cond.rs: IF.  A statement is a MOVE, a GO TO (it jumps by itself) or an *)
(* IF; an Option<Vec<Stat>> is [some, stats].                              *)

None == [some |-> FALSE, stats |-> << >>]

Some(stats) == [some |-> TRUE, stats |-> stats]

MoveStat(mov) == [kind |-> "move", mov |-> mov]

GotoStat == [kind |-> "goto"]

IfStat(cond, if_stats, else_stats) ==
    [kind |-> "if", condition |-> cond, if_stats |-> if_stats,
     else_stats |-> else_stats]

UnreachableMsg ==
    "Unreachable statements detected in block: No statements should be placed after unconditional jumps."

SetJumped(t, b) == IF Failed(t) THEN t ELSE [t EXCEPT !.jumped = b]

RECURSIVE translate_stat(_, _)
RECURSIVE translate_branch(_, _, _)

\* The loop, after one statement: its answer is or-ed into the flag.
translate_branch_next(t1, rest, block_self_terminates) ==
    translate_branch(t1, rest, block_self_terminates \/ t1.jumped)

\* A loop that goes on after a statement that jumps.
translate_branch_lenient(t, stats, block_self_terminates) ==
    IF Failed(t) THEN t
    ELSE IF stats = << >> THEN SetJumped(t, block_self_terminates)
    ELSE translate_branch_next(translate_stat(t, Head(stats)), Tail(stats),
                               block_self_terminates)

\* The loop over a branch's statements; leaves block_self_terminates in
\* `jumped`.
translate_branch(t, stats, block_self_terminates) ==
    IF Failed(t) THEN t
    ELSE IF stats = << >> THEN SetJumped(t, block_self_terminates)
    ELSE IF block_self_terminates THEN Bail(t, UnreachableMsg)
    ELSE translate_branch_next(translate_stat(t, Head(stats)), Tail(stats),
                               block_self_terminates)

\* A closing jump emitted whether or not the branch terminated itself.
close_branch_always(t, trailing_block) ==
    Ins(t, "jump", "", << >>, 0, "", <<trailing_block>>)

\* The closing jump of a branch that did not terminate itself.
close_branch(t, trailing_block) ==
    IF ~t.jumped
    THEN Ins(t, "jump", "", << >>, 0, "", <<trailing_block>>)
    ELSE t

\* seal_block under a condition.
seal_block_if(t, c, b) == IF c THEN seal_block(t, b) ELSE t

\* translate_if: the else-branch when there is one, the last seal of
\* trailing_block, and the switch to it.
translate_if_else(t11, if_data, else_block, trailing_block) ==
    switch_to_block(
        IF if_data.else_stats.some
        THEN seal_block(
                 close_branch(
                     translate_branch(switch_to_block(t11, else_block),
                                      if_data.else_stats.stats, FALSE),
                     trailing_block),
                 trailing_block)
        ELSE t11,
        trailing_block)

\* A then-branch step that seals trailing_block whether or not an else
\* follows: with an else, trailing_block is sealed twice.
translate_if_then_sealing(t8, if_data, else_block, trailing_block) ==
    translate_if_else(
        seal_block(
            close_branch(translate_branch(t8, if_data.if_stats.stats, FALSE),
                         trailing_block),
            trailing_block),
        if_data, else_block, trailing_block)

\* translate_if: the then-branch, its closing jump, and the seal of
\* trailing_block when there is no else.
translate_if_then(t8, if_data, else_block, trailing_block) ==
    translate_if_else(
        seal_block_if(
            close_branch(translate_branch(t8, if_data.if_stats.stats, FALSE),
                         trailing_block),
            ~if_data.else_stats.some, trailing_block),
        if_data, else_block, trailing_block)

\* A branch step that seals if_block before the brif that targets it.
translate_if_brif_sealfirst(t4, if_data, if_block, else_block, trailing_block) ==
    translate_if_then(
        switch_to_block(
            seal_block_if(
                Ins(seal_block(t4, if_block), "brif", "", <<t4.ret>>, 0, "",
                    <<if_block,
                      IF if_data.else_stats.some THEN else_block
                      ELSE trailing_block>>),
                if_data.else_stats.some, else_block),
            if_block),
        if_data, else_block, trailing_block)

\* translate_if: the conditional branch on the condition's value, the
\* seals of if_block and else_block, the switch to if_block.
translate_if_brif(t4, if_data, if_block, else_block, trailing_block) ==
    translate_if_then(
        switch_to_block(
            seal_block_if(
                seal_block(
                    Ins(t4, "brif", "", <<t4.ret>>, 0, "",
                        <<if_block,
                          IF if_data.else_stats.some THEN else_block
                          ELSE trailing_block>>),
                    if_block),
                if_data.else_stats.some, else_block),
            if_block),
        if_data, else_block, trailing_block)

\* translate_if: trailing_block was just created; the condition.
translate_if_cond(t3, if_data, if_block, else_block) ==
    translate_if_brif(translate_cond_eval(t3, if_data.condition), if_data,
                      if_block, else_block, t3.ret)

\* translate_if: else_block was just created (when there is an else).
translate_if_trailing(t2, if_data, if_block) ==
    translate_if_cond(create_block(t2), if_data, if_block, t2.ret)

\* translate_if: if_block was just created.
translate_if_blocks(t1, if_data) ==
    translate_if_trailing(
        IF if_data.else_stats.some THEN create_block(t1) ELSE t1,
        if_data, t1.ret)

translate_if(t, if_data) ==
    IF Failed(t) THEN t
    ELSE IF ~if_data.if_stats.some /\ ~if_data.else_stats.some THEN t
    ELSE IF ~(if_data.if_stats.some /\ if_data.if_stats.stats # << >>)
    THEN Bail(t, "panic: assertion failed")
    ELSE translate_if_blocks(create_block(t), if_data)

\* One statement; `jumped` tells whether it performed an unconditional jump
\* itself.  A GO TO jumps to a block outside the IF (the entry block here).
translate_stat(t, stat) ==
    CASE stat.kind = "move" -> SetJumped(translate_move(t, stat.mov), FALSE)
      [] stat.kind = "if" -> SetJumped(translate_if(t, stat), FALSE)
      [] stat.kind = "goto" ->
            SetJumped(Ins(t, "jump", "", << >>, 0, "goto", <<0>>), TRUE)

----------------------------------------------------------------------------
(* The inputs the specifications draw from.                                *)

\* Values a comparison may have on either side: one variable and one
\* literal of each kind.
Operands == {Var("I"), Var("F"), Var("A"), IntLit(1), FloatLit(1), StrLit(1)}

\* Every comparison of two operands.
LeafConds == {Cmp(op, l, r) : op \in CmpOps, l \in Operands, r \in Operands}

\* The comparisons put under combinators: an integer one and a string
\* equality.
GoodLeaves == {Cmp("Lt", Var("I"), IntLit(1)), Cmp("Eq", Var("A"), StrLit(1))}

\* Comparisons verify_cond rejects: a string ordinal comparison, an
\* equality with exactly one string.
BadOrd == Cmp("Gt", Var("A"), StrLit(1))

BadEq == Cmp("Eq", Var("A"), Var("I"))

\* The condition trees over `leaves` with exactly n combinators.
RECURSIVE TreesOver(_, _)
TreesOver(leaves, n) ==
    IF n = 0 THEN leaves
    ELSE {Not(c) : c \in TreesOver(leaves, n - 1)}
         \cup UNION {{And(l, r) : l \in TreesOver(leaves, i),
                                  r \in TreesOver(leaves, n - 1 - i)}
                     : i \in 0..(n - 1)}
         \cup UNION {{Or(l, r) : l \in TreesOver(leaves, i),
                                 r \in TreesOver(leaves, n - 1 - i)}
                     : i \in 0..(n - 1)}

\* The conditions translate_cond_eval is applied to.
Conds ==
    LeafConds
    \cup UNION {TreesOver(GoodLeaves, n) : n \in 0..MaxCondNodes}
    \cup TreesOver({BadOrd, BadEq}, 1)

\* Conditions of the IF statements whose branches vary.
BodyConds == {Cmp("Lt", Var("I"), IntLit(1))}

\* Conditions of the IF statements whose condition varies: the rejected
\* comparisons alone, under one combinator and at depth two, and their
\* accepted neighbours.
HeadConds ==
    TreesOver(GoodLeaves \cup {BadOrd, BadEq}, 0)
    \cup TreesOver(GoodLeaves \cup {BadOrd, BadEq}, 1)
    \cup {Cmp("Eq", IntLit(1), StrLit(1)), Cmp("Le", FloatLit(1), Var("A")),
          Not(Not(BadEq)), Not(Not(BadOrd)),
          Or(Not(BadEq), Cmp("Lt", Var("I"), IntLit(1))),
          And(Cmp("Lt", Var("I"), IntLit(1)), Not(BadEq)),
          Not(Or(Cmp("Eq", Var("A"), StrLit(1)), Cmp("Le", IntLit(1), Var("A")))),
          And(Not(Cmp("Lt", Var("I"), IntLit(1))),
              Or(Cmp("Eq", Var("A"), StrLit(1)), Cmp("Ge", StrLit(1), Var("F"))))}

\* The statements without statements inside.
AtomStats ==
    {MoveStat(MoveLit(IntLit(1), MoveRef("I", NoSpan))),
     MoveStat(MoveVar(MoveRef("A", SpanFrom(IntLit(3))), MoveRef("B", NoSpan))),
     GotoStat}

\* Gen[n]: the statements, and the statement lists, of n statement nodes.
Gen[n \in 0..MaxNodes] ==
    LET stats ==
            IF n = 0 THEN {}
            ELSE IF n = 1
            THEN AtomStats
            ELSE {IfStat(c, Some(l), None) : c \in BodyConds, l \in Gen[n - 1].lists}
                 \cup UNION {{IfStat(c, Some(l), Some(e)) :
                                 c \in BodyConds, l \in Gen[i].lists,
                                 e \in Gen[n - 1 - i].lists}
                             : i \in 1..(n - 2)}
        lists ==
            IF n = 0 THEN {<< >>}
            ELSE {<<s>> : s \in stats}
                 \cup UNION {{<<s>> \o l : s \in Gen[k].stats, l \in Gen[n - k].lists}
                             : k \in 1..(n - 1)}
    IN  [stats |-> stats, lists |-> lists]

\* IF statements over the head conditions, with fixed branches.
CondIfs ==
    {IfStat(c, Some(<<MoveStat(MoveLit(IntLit(1), MoveRef("I", NoSpan)))>>), None)
        : c \in HeadConds}
    \cup {IfStat(c, Some(<<MoveStat(MoveLit(IntLit(1), MoveRef("I", NoSpan)))>>),
                 Some(<<GotoStat>>))
        : c \in HeadConds}

\* An IF without branches (a no-op), and an else-branch without a
\* then-branch (the assertion of translate_if).
OddIfs ==
    {IfStat(c, None, None) : c \in BodyConds}
    \cup {IfStat(c, None, Some(<<GotoStat>>)) : c \in BodyConds}

RECURSIVE Size(_)
RECURSIVE ListSize(_)
\* The statement nodes of a statement.
Size(s) ==
    IF s.kind = "if"
    THEN 1 + ListSize(s.if_stats.stats) + ListSize(s.else_stats.stats)
    ELSE 1

ListSize(l) == IF l = << >> THEN 0 ELSE Size(Head(l)) + ListSize(Tail(l))

\* TopStats[n]: the statements of n nodes a function body is made of.
TopStats[n \in 1..MaxNodes] ==
    Gen[n].stats \cup {s \in CondIfs \cup OddIfs : Size(s) = n}

----------------------------------------------------------------------------
(* Spec: the translation of one function body, statement after statement.  *)

NoInput == [kind |-> "none"]

Init ==
    /\ ft = Fresh
    /\ pre = Fresh
    /\ input = NoInput
    /\ phase = "idle"
    /\ budget = MaxNodes

\* The function translator hands the next statement of the body to
\* translate_stat; it stops at the first error.
TranslateStat(s) ==
    /\ ~Failed(ft)
    /\ ft' = translate_stat(ft, s)
    /\ pre' = ft
    /\ input' = s
    /\ phase' = "stat"
    /\ budget' = budget - Size(s)

\* The next function gets a new translator: the caches are dropped.
NewFunction ==
    /\ phase = "stat"
    /\ ft' = Fresh
    /\ pre' = Fresh
    /\ input' = NoInput
    /\ phase' = "idle"
    /\ budget' = MaxNodes

Next ==
    \/ \E n \in 1..budget : \E s \in TopStats[n] : TranslateStat(s)
    \/ NewFunction

Spec == Init /\ [][Next]_vars

----------------------------------------------------------------------------
(* SpecCond: translate_cond_eval applied to one condition, in a new        *)
(* translator or in one that has translated MOVE 1 TO I before.            *)

Warm == translate_move(Fresh, MoveLit(IntLit(1), MoveRef("I", NoSpan)))

InitCond ==
    /\ ft \in {Fresh, Warm}
    /\ pre = ft
    /\ input \in {[kind |-> "cond", condition |-> c] : c \in Conds}
    /\ phase = "idle"
    /\ budget = 0

CondEval ==
    /\ phase = "idle"
    /\ input.kind = "cond"
    /\ ft' = translate_cond_eval(ft, input.condition)
    /\ pre' = ft
    /\ phase' = "cond"
    /\ UNCHANGED <<input, budget>>

SpecCond == InitCond /\ [][CondEval]_vars

----------------------------------------------------------------------------
(* SpecMove: translate_move applied to one MOVE, and load_span to one span *)
(* of a string variable, in a new translator.                              *)

\* The spans load_span is applied to: start and length are integers.
SpanStarts == {IntLit(i) : i \in 1..MaxSpan} \cup {Var("I")}

SpanLens == {IntLit(i) : i \in 1..MaxSpan} \cup {Var("N")}

IntSpans ==
    {NoSpan} \cup {SpanFrom(st) : st \in SpanStarts}
    \cup {SpanOf(st, ln) : st \in SpanStarts, ln \in SpanLens}

StrSyms == {sym \in Syms : is_str_pic(sym_pic(sym))}

SpanInputs ==
    {[kind |-> "span", sym |-> sym, span |-> sp] : sym \in StrSyms, sp \in IntSpans}

\* The spans of the MOVE statements: none, open, of length one, of variable
\* bounds, and two that MoveRef::validate rejects.
MoveSpans ==
    {NoSpan, SpanFrom(IntLit(3)), SpanOf(IntLit(1), IntLit(1)),
     SpanOf(Var("I"), Var("N")), SpanFrom(FloatLit(1)),
     SpanOf(IntLit(1), StrLit(1))}

MoveRefs == {MoveRef(sym, sp) : sym \in Syms, sp \in MoveSpans}

MoveLits == {IntLit(1), FloatLit(1)} \cup {StrLit(sid) : sid \in StrIds}

\* The intrinsic calls: one of each return type.
IntrinsicCalls ==
    {IntrinsicCall("fi64", "I64"), IntrinsicCall("ff64", "F64"),
     IntrinsicCall("fi8", "I8")}

Moves ==
    {MoveLit(lit, dest) : lit \in MoveLits, dest \in MoveRefs}
    \cup {MoveVar(src, dest) : src \in MoveRefs, dest \in MoveRefs}
    \cup {MoveIntrinsic(call, dest) : call \in IntrinsicCalls, dest \in MoveRefs}

MoveInputs == {[kind |-> "move", mov |-> m] : m \in Moves}

InitMove ==
    /\ ft = Fresh
    /\ pre = Fresh
    /\ input \in MoveInputs \cup SpanInputs
    /\ phase = "idle"
    /\ budget = 0

Move ==
    /\ phase = "idle"
    /\ input.kind = "move"
    /\ ft' = translate_move(ft, input.mov)
    /\ pre' = ft
    /\ phase' = "move"
    /\ UNCHANGED <<input, budget>>

LoadSpan ==
    /\ phase = "idle"
    /\ input.kind = "span"
    /\ ft' = load_span(ft, sym_pic(input.sym), input.span)
    /\ pre' = ft
    /\ phase' = "span"
    /\ UNCHANGED <<input, budget>>

NextMove == Move \/ LoadSpan

SpecMove == InitMove /\ [][NextMove]_vars

----------------------------------------------------------------------------
(* SpecLoad: one function body as a sequence of loader calls (load_lit,    *)
(* load_var, load_static_ptr, load_cg_lit) and of statements (a MOVE, an   *)
(* IF), in any order.  `input` remembers the loader calls made so far and  *)
(* the value each returned first.                                          *)

\* A loader call: the loader and its argument (a value, a data id or a
\* codegen literal; the other two fields are fillers).
LoadItem(fn, val, id, cg) == [fn |-> fn, val |-> val, id |-> id, cg |-> cg]

NoCg == [k |-> "Int", v |-> 0]

LitItems == {LoadItem("load_lit", lit, 0, NoCg) : lit \in {IntLit(1), FloatLit(1), StrLit(1)}}

VarItems == {LoadItem("load_var", Var(sym), 0, NoCg) : sym \in {"I", "F", "A"}}

PtrItems ==
    {LoadItem("load_static_ptr", IntLit(0), id, NoCg)
        : id \in {sym_data_id("A"), sym_data_id("I"), str_data_id(1)}}

CgItems ==
    {LoadItem("load_cg_lit", IntLit(0), 0, cg)
        : cg \in {[k |-> "Int", v |-> 0], [k |-> "Char", v |-> 88]}}

\* The statements of SpecLoad: MOVE A(3:) TO B, and an IF whose branches
\* both move 1 to I.
LoadStats ==
    <<MoveStat(MoveVar(MoveRef("A", SpanFrom(IntLit(3))), MoveRef("B", NoSpan))),
      IfStat(Cmp("Eq", Var("A"), StrLit(1)),
             Some(<<MoveStat(MoveLit(IntLit(1), MoveRef("I", NoSpan)))>>),
             Some(<<MoveStat(MoveLit(IntLit(1), MoveRef("I", NoSpan)))>>))>>

StatItems == {LoadItem("stat", IntLit(0), i, NoCg) : i \in 1..Len(LoadStats)}

\* The call itself.
ApplyLoad(t, it) ==
    CASE it.fn = "load_lit" -> load_lit(t, it.val)
      [] it.fn = "load_var" -> load_var(t, it.val.s)
      [] it.fn = "load_static_ptr" -> load_static_ptr(t, it.id)
      [] it.fn = "load_cg_lit" -> load_cg_lit(t, it.cg)
      [] it.fn = "stat" -> translate_stat(t, LoadStats[it.id])

\* The value the first call of `it` returned, 0 when there was none.
FirstVal(seen, it) ==
    IF \E e \in seen : e.item = it
    THEN (CHOOSE e \in seen : e.item = it).val
    ELSE 0

InitLoad ==
    /\ ft = Fresh
    /\ pre = Fresh
    /\ input = [kind |-> "load", item |-> LoadItem("none", IntLit(0), 0, NoCg),
                again |-> FALSE, first |-> 0, seen |-> {}]
    /\ phase = "idle"
    /\ budget = MaxLoads

DoLoad(it) ==
    /\ budget > 0
    /\ ~Failed(ft)
    /\ ft' = ApplyLoad(ft, it)
    /\ pre' = ft
    /\ input' = [kind |-> "load", item |-> it,
                 again |-> (\E e \in input.seen : e.item = it),
                 first |-> FirstVal(input.seen, it),
                 seen |-> IF (\E e \in input.seen : e.item = it) \/ it.fn = "stat"
                          THEN input.seen
                          ELSE input.seen \cup {[item |-> it, val |-> ApplyLoad(ft, it).ret]}]
    /\ phase' = "load"
    /\ budget' = budget - 1

LoadLit == \E it \in LitItems : DoLoad(it)

LoadVar == \E it \in VarItems : DoLoad(it)

LoadStaticPtr == \E it \in PtrItems : DoLoad(it)

LoadCgLit == \E it \in CgItems : DoLoad(it)

LoadStat == \E it \in StatItems : DoLoad(it)

NextLoad == LoadLit \/ LoadVar \/ LoadStaticPtr \/ LoadCgLit \/ LoadStat

SpecLoad == InitLoad /\ [][NextLoad]_vars

----------------------------------------------------------------------------
(* SpecRound: MOVE a TO b, then MOVE b TO a, in one function, for two      *)
(* variables of the same PIC; the emitted instructions are executed on an  *)
(* initial memory after each MOVE.                                          *)

\* The values a memory cell may hold.
MaxCell == 1

Cells == 0..MaxCell

\* Pairs of distinct variables with the same PIC.
TwinPairs ==
    {<<"I", "N">>, <<"N", "I">>, <<"F", "H">>, <<"H", "F">>,
     <<"D", "E">>, <<"E", "D">>, <<"C", "G">>, <<"G", "C">>}

\* The cells of a variable: one per byte of a string, one word for an
\* integer or a float (loaded and stored whole).
CellCount(sym) == IF is_str_pic(sym_pic(sym)) THEN comp_size(sym_pic(sym)) ELSE 1

\* The memories of two variables: data id -> cells.
Memories(a, b) ==
    {[d \in {sym_data_id(a), sym_data_id(b)} |->
         IF d = sym_data_id(a) THEN ca ELSE cb] :
        ca \in [1..CellCount(a) -> Cells], cb \in [1..CellCount(b) -> Cells]}

\* The value instruction i defines, given the values before it: a
\* global_value is the address, written as the data id.
ExecVal(log, i, mem, vals) ==
    CASE log[i].op = "iconst" -> log[i].imm
      [] log[i].op = "global_value" -> log[i].imm
      [] log[i].op = "load" -> mem[vals[log[i].args[1]]][1]
      [] OTHER -> 0

\* memcpy(dest, src, size): the first `size` cells.
ExecMemcpy(mem, dest, src, size) ==
    [mem EXCEPT ![dest] =
        [k \in DOMAIN mem[dest] |-> IF k <= size THEN mem[src][k] ELSE mem[dest][k]]]

\* charcpy(src_ptr, dest_ptr, src_offset, dest_offset):
\* dest[dest_offset] = src[src_offset], offsets from 0.
ExecCharcpy(mem, src, dest, src_offset, dest_offset) ==
    [mem EXCEPT ![dest] = [@ EXCEPT ![dest_offset + 1] = mem[src][src_offset + 1]]]

\* The memory after instruction i.  No unspanned MOVE of SpecRound calls
\* strcpy or an intrinsic function.
ExecMem(log, i, mem, vals) ==
    CASE log[i].op = "store" ->
            [mem EXCEPT ![vals[log[i].args[2]]] =
                [@ EXCEPT ![1] = vals[log[i].args[1]]]]
      [] log[i].op = "call_memcpy" ->
            ExecMemcpy(mem, vals[log[i].args[1]], vals[log[i].args[2]],
                       vals[log[i].args[3]])
      [] log[i].op = "call" /\ log[i].tag = "charcpy" ->
            ExecCharcpy(mem, vals[log[i].args[1]], vals[log[i].args[2]],
                        vals[log[i].args[3]], vals[log[i].args[4]])
      [] OTHER -> mem

\* The straight-line execution of log[i..] from memory mem.
RECURSIVE ExecFrom(_, _, _, _)
ExecFrom(log, i, mem, vals) ==
    IF i > Len(log) THEN mem
    ELSE ExecFrom(log, i + 1, ExecMem(log, i, mem, vals),
                  Append(vals, ExecVal(log, i, mem, vals)))

Exec(log, mem) == ExecFrom(log, 1, mem, << >>)

RoundInput(a, b, mem) ==
    [kind |-> "round", a |-> a, b |-> b, mem0 |-> mem, mem1 |-> mem, mem2 |-> mem]

RoundInputs ==
    UNION {{RoundInput(p[1], p[2], mem) : mem \in Memories(p[1], p[2])} : p \in TwinPairs}

InitRound ==
    /\ ft = Fresh
    /\ pre = Fresh
    /\ input \in RoundInputs
    /\ phase = "idle"
    /\ budget = 0

\* MOVE a TO b.
MoveAB ==
    /\ phase = "idle"
    /\ ft' = translate_move(ft, MoveVar(MoveRef(input.a, NoSpan), MoveRef(input.b, NoSpan)))
    /\ pre' = ft
    /\ phase' = "ab"
    /\ UNCHANGED <<input, budget>>

\* MOVE b TO a, next in the same function.
MoveBA ==
    /\ phase = "ab_run"
    /\ ~Failed(ft)
    /\ ft' = translate_move(ft, MoveVar(MoveRef(input.b, NoSpan), MoveRef(input.a, NoSpan)))
    /\ pre' = ft
    /\ phase' = "ba"
    /\ UNCHANGED <<input, budget>>

\* The function emitted so far runs on the initial memory.
Execute ==
    /\ phase \in {"ab", "ba"}
    /\ ~Failed(ft)
    /\ input' = IF phase = "ab"
                THEN [input EXCEPT !.mem1 = Exec(ft.log, input.mem0),
                                   !.mem2 = Exec(ft.log, input.mem0)]
                ELSE [input EXCEPT !.mem2 = Exec(ft.log, input.mem0)]
    /\ phase' = IF phase = "ab" THEN "ab_run" ELSE "ba_run"
    /\ UNCHANGED <<ft, pre, budget>>

NextRound == MoveAB \/ MoveBA \/ Execute

SpecRound == InitRound /\ [][NextRound]_vars

----------------------------------------------------------------------------
(* Reading the builder's log.                                              *)

\* The events the last operation appended.
NewIdx == (Len(pre.log) + 1)..Len(ft.log)

\* Events that insert an instruction into a block.
IsInst(e) ==
    e.op \notin {"create_block", "seal_block", "switch_to_block",
                 "declare_data_in_func"}

\* The seal_block events of block b.
Seals(b) == {i \in 1..Len(ft.log) : ft.log[i].op = "seal_block" /\ ft.log[i].blks = <<b>>}

\* The branch and jump instructions that name block b as a target.
Targeting(b) ==
    {i \in 1..Len(ft.log) :
        /\ ft.log[i].op \in {"brif", "jump"}
        /\ \E k \in 1..Len(ft.log[i].blks) : ft.log[i].blks[k] = b}

\* The comparison primitives.
IsCmpPrim(e) == e.op \in {"icmp", "fcmp"} \/ (e.op = "call" /\ e.tag = "strcmp")

\* The instructions a condition is made of.
IsLogic(e) == IsCmpPrim(e) \/ e.op \in {"bxor_imm", "band", "bor"}

IsNewLogicAt(i) == IsLogic(ft.log[i])

\* The indices of the condition instructions the last operation appended,
\* in emission order.
NewLogic == SelectSeq([k \in 1..(Len(ft.log) - Len(pre.log)) |-> Len(pre.log) + k],
                      IsNewLogicAt)

\* Bitwise and / or / xor of two naturals.
RECURSIVE BitOp(_, _, _)
BitOp(op, a, b) ==
    IF a = 0 /\ b = 0 THEN 0
    ELSE (CASE op = "and" -> (IF a % 2 = 1 /\ b % 2 = 1 THEN 1 ELSE 0)
            [] op = "or" -> (IF a % 2 = 1 \/ b % 2 = 1 THEN 1 ELSE 0)
            [] op = "xor" -> (IF a % 2 # b % 2 THEN 1 ELSE 0))
         + 2 * BitOp(op, a \div 2, b \div 2)

\* The value the instruction log[v] computes, when the variable of data id
\* d holds mem[d] and the k-th comparison primitive of the log yields
\* bits[k].
RECURSIVE EvalV(_, _, _, _)
EvalV(log, v, mem, bits) ==
    CASE log[v].op = "iconst" -> log[v].imm
      [] log[v].op = "load" -> mem[log[log[v].args[1]].imm]
      [] log[v].op = "iadd_imm" -> EvalV(log, log[v].args[1], mem, bits) + log[v].imm
      [] log[v].op = "isub" ->
            EvalV(log, log[v].args[1], mem, bits) - EvalV(log, log[v].args[2], mem, bits)
      [] log[v].op = "bxor_imm" ->
            BitOp("xor", EvalV(log, log[v].args[1], mem, bits), log[v].imm)
      [] log[v].op = "band" ->
            BitOp("and", EvalV(log, log[v].args[1], mem, bits),
                  EvalV(log, log[v].args[2], mem, bits))
      [] log[v].op = "bor" ->
            BitOp("or", EvalV(log, log[v].args[1], mem, bits),
                  EvalV(log, log[v].args[2], mem, bits))
      [] IsCmpPrim(log[v]) ->
            bits[Cardinality({i \in 1..v : IsCmpPrim(log[i])})]

\* The comparisons of a condition, left to right.
RECURSIVE Leaves(_)
Leaves(c) ==
    IF c.op \in CmpOps THEN <<c>>
    ELSE IF c.op = "Not" THEN Leaves(c.l)
    ELSE Leaves(c.l) \o Leaves(c.r)

\* The diagnostic a comparison deserves: an equality with exactly one
\* string side, an ordinal comparison with a string side.
LeafMsg(c) ==
    IF c.op = "Eq"
    THEN IF is_str(c.l) # is_str(c.r) THEN StrNonStrMsg ELSE ""
    ELSE IF is_str(c.l) \/ is_str(c.r) THEN StrOrdMsg ELSE ""

BadLeaves(c) == {i \in 1..Len(Leaves(c)) : LeafMsg(Leaves(c)[i]) # ""}

\* The diagnostic of the first such comparison, "" when there is none.
FirstBadMsg(c) ==
    IF BadLeaves(c) = {} THEN ""
    ELSE LeafMsg(Leaves(c)[CHOOSE i \in BadLeaves(c) : \A j \in BadLeaves(c) : i <= j])

\* A statement list in which a statement follows a GO TO, or the same in an
\* IF of the list, at any depth.
RECURSIVE ListDead(_)
ListDead(l) ==
    \/ \E i \in 1..(Len(l) - 1) : l[i].kind = "goto"
    \/ \E i \in 1..Len(l) :
          /\ l[i].kind = "if"
          /\ ListDead(l[i].if_stats.stats) \/ ListDead(l[i].else_stats.stats)

\* An IF with an else-branch somewhere in the list.
RECURSIVE ListHasElse(_)
ListHasElse(l) ==
    \E i \in 1..Len(l) :
        /\ l[i].kind = "if"
        /\ \/ l[i].else_stats.some
           \/ ListHasElse(l[i].if_stats.stats)
           \/ ListHasElse(l[i].else_stats.stats)

\* The last statement was an IF with a then-branch.
IfDone ==
    /\ phase = "stat"
    /\ input.kind = "if"
    /\ input.if_stats.some
    /\ input.if_stats.stats # << >>

\* The blocks the last statement created.
NewBlocks == pre.nblk..(ft.nblk - 1)

----------------------------------------------------------------------------
(* cond.rs: the block protocol of translate_if.                            *)

\* C1: when translate_if returns successfully, with or without an else and
\* with IFs nested in its branches, every block it created (the nested
\* ones included) has been sealed exactly once.
C1_SealedExactlyOnce ==
    (IfDone /\ ~Failed(ft)) =>
        /\ ft.nblk - pre.nblk >= (IF input.else_stats.some THEN 3 ELSE 2)
        /\ \A b \in NewBlocks : Cardinality(Seals(b)) = 1

\* An IF with an else and an IF nested in a branch was translated.
C1_Witness ==
    /\ IfDone /\ ~Failed(ft)
    /\ input.else_stats.some
    /\ ft.nblk - pre.nblk >= 5

\* C2: no branch or jump that targets a block is emitted after the block
\* was sealed; after a successful translate_if every block named by a brif
\* or by a closing jump is sealed, later than that instruction.
C2_SealAfterPredecessors ==
    /\ \A b \in 1..(ft.nblk - 1) :
          \A i \in Seals(b) : \A j \in Targeting(b) : j < i
    /\ (IfDone /\ ~Failed(ft)) =>
          \A b \in NewBlocks : \A j \in Targeting(b) : \E i \in Seals(b) : j < i

\* A nested IF with an else was translated: its trailing block is the
\* target of two closing jumps, both before the seal.
C2_Witness ==
    /\ IfDone /\ ~Failed(ft)
    /\ ListHasElse(input.if_stats.stats)
    /\ \E b \in NewBlocks :
          /\ Cardinality(Targeting(b)) = 2
          /\ \A j \in Targeting(b) : ft.log[j].op = "jump"
          /\ \E i \in Seals(b) : \A j \in Targeting(b) : j < i

\* C3: when a statement of a branch jumps by itself and another statement
\* follows it in that branch, translate_if fails with the "unreachable
\* statements" diagnostic and the jump of that statement is the last thing
\* emitted: no later statement, no closing jump, no seal, no switch.
C3_UnreachableStops ==
    (IfDone /\ FirstBadMsg(input.condition) = ""
        /\ (ListDead(input.if_stats.stats) \/ ListDead(input.else_stats.stats))) =>
        /\ ft.err = UnreachableMsg
        /\ ft.log[Len(ft.log)].op = "jump"
        /\ ft.log[Len(ft.log)].tag = "goto"
        /\ ft.cur = ft.log[Len(ft.log)].in

\* The statement after a GO TO is in an else-branch.
C3_Witness ==
    /\ IfDone
    /\ ft.err = UnreachableMsg
    /\ ~ListDead(input.if_stats.stats)
    /\ ListDead(input.else_stats.stats)
    /\ ft.log[Len(ft.log)].tag = "goto"

\* C4 as stated: when a comparison at any depth of the condition of an IF
\* is a string compared ordinally, or a string compared for equality with a
\* non-string, translate_if fails with that diagnostic, and by then no
\* instruction has been inserted and no block has been created.
C4_NothingCreated ==
    (IfDone /\ FirstBadMsg(input.condition) # "") =>
        /\ ft.err = FirstBadMsg(input.condition)
        /\ \A i \in NewIdx : ~IsInst(ft.log[i])
        /\ ft.nblk = pre.nblk

\* C4, amended: when a comparison at any depth of the condition of an IF
\* is a string compared ordinally, or a string compared for equality with a
\* non-string, translate_if fails with the diagnostic of the first such
\* comparison; no instruction has been inserted, no block sealed or
\* switched to and no value cached, but if_block, else_block (with an else)
\* and trailing_block have already been created.
C4_OnlyBlocksCreated ==
    (IfDone /\ FirstBadMsg(input.condition) # "") =>
        /\ ft.err = FirstBadMsg(input.condition)
        /\ \A i \in NewIdx : ft.log[i].op = "create_block"
        /\ ft.nblk - pre.nblk = (IF input.else_stats.some THEN 3 ELSE 2)
        /\ Len(ft.log) - Len(pre.log) = ft.nblk - pre.nblk
        /\ ft.cur = pre.cur
        /\ ft.litv = pre.litv /\ ft.cglitv = pre.cglitv
        /\ ft.sptr = pre.sptr /\ ft.gv = pre.gv

\* The rejected comparison is the right operand of an And, under a Not,
\* after a comparison that passes.
C4_Witness ==
    /\ IfDone
    /\ input.condition.op = "And"
    /\ FirstBadMsg(input.condition.l) = ""
    /\ input.condition.r.op = "Not"
    /\ ft.err = StrNonStrMsg
    /\ ft.nblk - pre.nblk = 2

----------------------------------------------------------------------------
(* cond.rs: the instructions of a condition.                               *)

\* The condition codes of the comparison operators.
IntCCOf(op) ==
    CASE op = "Eq" -> "Equal"
      [] op = "Ge" -> "SignedGreaterThanOrEqual"
      [] op = "Le" -> "SignedLessThanOrEqual"
      [] op = "Gt" -> "SignedGreaterThan"
      [] op = "Lt" -> "SignedLessThan"

FloatCCOf(op) ==
    CASE op = "Eq" -> "Equal"
      [] op = "Ge" -> "GreaterThanOrEqual"
      [] op = "Le" -> "LessThanOrEqual"
      [] op = "Gt" -> "GreaterThan"
      [] op = "Lt" -> "LessThan"

\* The last operation translated a condition.
CondDone == phase = "cond" /\ input.kind = "cond"

\* The int-to-float conversions the last operation emitted.
NewFcvt == {i \in NewIdx : ft.log[i].op = "fcvt_from_sint"}

\* Value a is what a float comparison takes for side x: the loaded float,
\* or the conversion of the loaded integer.
FloatSide(x, a) ==
    IF is_float(x)
    THEN ft.log[a].op \in {"load", "f64const"} /\ ft.log[a].ty = "F64"
    ELSE /\ ft.log[a].op = "fcvt_from_sint"
         /\ a \in NewFcvt
         /\ ft.log[ft.log[a].args[1]].op \in {"load", "iconst"}
         /\ ft.log[ft.log[a].args[1]].ty = "I64"

\* C5: a comparison that passes verification is translated to exactly one
\* comparison primitive, the last instruction emitted: with a string side,
\* a call of strcmp on the two pointers, whose result is the value; else
\* with a float side, an fcmp with the operator's float predicate, after
\* one fcvt_from_sint for each side that is not a float; else an icmp with
\* the operator's signed predicate.  No conversion is emitted for a float
\* side, nor in the string and integer cases.
C5_OnePrimitive ==
    (CondDone /\ input.condition.op \in CmpOps /\ LeafMsg(input.condition) = "") =>
        /\ ~Failed(ft)
        /\ {i \in NewIdx : IsCmpPrim(ft.log[i])} = {Len(ft.log)}
        /\ ft.ret = Len(ft.log)
        /\ Len(ft.log[ft.ret].args) = 2
        /\ IF is_str(input.condition.l) \/ is_str(input.condition.r)
           THEN /\ ft.log[ft.ret].op = "call" /\ ft.log[ft.ret].tag = "strcmp"
                /\ \A k \in 1..2 :
                      /\ ft.log[ft.log[ft.ret].args[k]].op = "global_value"
                      /\ ft.log[ft.log[ft.ret].args[k]].ty = ptr_type
                /\ NewFcvt = {}
           ELSE IF is_float(input.condition.l) \/ is_float(input.condition.r)
           THEN /\ ft.log[ft.ret].op = "fcmp"
                /\ ft.log[ft.ret].tag = FloatCCOf(input.condition.op)
                /\ FloatSide(input.condition.l, ft.log[ft.ret].args[1])
                /\ FloatSide(input.condition.r, ft.log[ft.ret].args[2])
                /\ Cardinality(NewFcvt) =
                      (IF is_float(input.condition.l) THEN 0 ELSE 1)
                      + (IF is_float(input.condition.r) THEN 0 ELSE 1)
           ELSE /\ ft.log[ft.ret].op = "icmp"
                /\ ft.log[ft.ret].tag = IntCCOf(input.condition.op)
                /\ \A k \in 1..2 :
                      /\ ft.log[ft.log[ft.ret].args[k]].op \in {"load", "iconst"}
                      /\ ft.log[ft.log[ft.ret].args[k]].ty = "I64"
                /\ NewFcvt = {}

\* A float variable was compared with an integer literal: one conversion,
\* of the right side.
C5_Witness ==
    /\ CondDone /\ ~Failed(ft)
    /\ input.condition = Cmp("Ge", Var("F"), IntLit(1))
    /\ Cardinality(NewFcvt) = 1
    /\ ft.log[ft.ret].op = "fcmp"

\* The comparison primitives of the log.
CmpCount(log) == Cardinality({i \in 1..Len(log) : IsCmpPrim(log[i])})

\* No variable is read by a condition's own instructions.
NoMem == [d \in {} |-> 0]

\* C6: with nonzero read as true and every comparison yielding 0 or 1, the
\* value of Not(Not(c)) is true exactly when the value of c is.
C6_DoubleNegation ==
    (CondDone /\ ~Failed(ft) /\ input.condition.op = "Not"
        /\ input.condition.l.op = "Not") =>
        /\ ~Failed(translate_cond_eval(pre, input.condition.l.l))
        /\ CmpCount(translate_cond_eval(pre, input.condition.l.l).log) = CmpCount(ft.log)
        /\ \A bits \in [1..CmpCount(ft.log) -> {0, 1}] :
              (EvalV(ft.log, ft.ret, NoMem, bits) # 0)
              = (EvalV(translate_cond_eval(pre, input.condition.l.l).log,
                       translate_cond_eval(pre, input.condition.l.l).ret,
                       NoMem, bits) # 0)

\* Not(Not(c)) was translated for a c of two comparisons.
C6_Witness ==
    /\ CondDone /\ ~Failed(ft)
    /\ input.condition.op = "Not"
    /\ input.condition.l.op = "Not"
    /\ input.condition.l.l.op = "Or"
    /\ CmpCount(ft.log) = 2
    /\ ft.log[ft.ret].op = "bxor_imm"

\* The primitive a comparison is translated to.
PrimOf(c) ==
    IF is_str(c.l) \/ is_str(c.r) THEN [op |-> "call", tag |-> "strcmp"]
    ELSE IF is_float(c.l) \/ is_float(c.r)
    THEN [op |-> "fcmp", tag |-> FloatCCOf(c.op)]
    ELSE [op |-> "icmp", tag |-> IntCCOf(c.op)]

\* The condition instructions of a condition, operands before operator and
\* left before right.
RECURSIVE Shape(_)
Shape(c) ==
    IF c.op \in CmpOps THEN <<PrimOf(c)>>
    ELSE IF c.op = "Not" THEN Shape(c.l) \o <<[op |-> "bxor_imm", tag |-> ""]>>
    ELSE Shape(c.l) \o Shape(c.r)
         \o <<[op |-> (IF c.op = "And" THEN "band" ELSE "bor"), tag |-> ""]>>

\* C7: And(l, r) and Or(l, r) whose operands pass verification emit all of
\* l, then all of r, then one band (bor) of the two results, in the current
\* block: no branch, no jump and no block, so r is emitted and evaluated
\* whatever the value of l.
C7_BothOperands ==
    (CondDone /\ input.condition.op \in {"And", "Or"}
        /\ FirstBadMsg(input.condition) = "") =>
        /\ ~Failed(ft)
        /\ [k \in 1..Len(NewLogic) |->
               [op |-> ft.log[NewLogic[k]].op, tag |-> ft.log[NewLogic[k]].tag]]
           = Shape(input.condition)
        /\ \A i \in NewIdx :
              /\ ft.log[i].op \notin {"brif", "jump", "create_block",
                                      "seal_block", "switch_to_block"}
              /\ ft.log[i].in = pre.cur
        /\ ft.cur = pre.cur /\ ft.nblk = pre.nblk
        /\ ft.ret = Len(ft.log)
        /\ ft.log[ft.ret].op = (IF input.condition.op = "And" THEN "band" ELSE "bor")
        /\ ft.log[ft.ret].args =
              <<NewLogic[Len(Shape(input.condition.l))],
                NewLogic[Len(Shape(input.condition.l)) + Len(Shape(input.condition.r))]>>

\* An And of an Or and a negated comparison was translated.
C7_Witness ==
    /\ CondDone /\ ~Failed(ft)
    /\ input.condition.op = "And"
    /\ input.condition.l.op = "Or"
    /\ input.condition.r.op = "Not"
    /\ ft.log[ft.ret].op = "band"
    /\ Len(NewLogic) = 6

----------------------------------------------------------------------------
(* memory.rs: spans and intrinsic moves.                                   *)

\* The last operation was load_span.
SpanDone == phase = "span" /\ input.kind = "span"

\* The integer variables a span may read, by data id.
SpanVarIds == {sym_data_id("I"), sym_data_id("N")}

\* The run-time value of an integer operand.
ValOf(x, mem) == IF x.k = "var" THEN mem[sym_data_id(x.s)] ELSE x.v

\* No comparison is part of a span's instructions.
NoBits == [k \in {} |-> 0]

\* C8: for a span of 1-based start s and length n, load_span returns IR
\* values that evaluate to (s - 1, n); for a start alone, to
\* (s - 1, (comp_size - 1) - (s - 1)); without a span, to (0, comp_size - 1).
C8_SpanValues ==
    SpanDone =>
        /\ ~Failed(ft)
        /\ \A mem \in [SpanVarIds -> 1..MaxSpan] :
              /\ EvalV(ft.log, ft.ret, mem, NoBits) =
                    (IF input.span.has THEN ValOf(input.span.start, mem) - 1 ELSE 0)
              /\ EvalV(ft.log, ft.ret2, mem, NoBits) =
                    (IF input.span.has /\ input.span.haslen
                     THEN ValOf(input.span.len, mem)
                     ELSE IF input.span.has
                     THEN (comp_size(sym_pic(input.sym)) - 1)
                          - (ValOf(input.span.start, mem) - 1)
                     ELSE comp_size(sym_pic(input.sym)) - 1)

\* load_span was applied to A(3:), A of comp_size 11: the values are 2, 8.
C8_Witness ==
    /\ SpanDone /\ ~Failed(ft)
    /\ input.sym = "A"
    /\ input.span = SpanFrom(IntLit(3))
    /\ EvalV(ft.log, ft.ret, NoBits, NoBits) = 2
    /\ EvalV(ft.log, ft.ret2, NoBits, NoBits) = 8

\* The last operation was translate_move.
MoveDone == phase = "move" /\ input.kind = "move"

\* MOVE A(3:) TO B.
MoveA3ToB == MoveVar(MoveRef("A", SpanFrom(IntLit(3))), MoveRef("B", NoSpan))

\* The last instruction is a call of strcpy whose four span arguments
\* evaluate to (si, sl) for the source and (di, dl) for the destination.
StrcpySpans(si, sl, di, dl) ==
    /\ ft.log # << >>
    /\ ft.log[Len(ft.log)].op = "call"
    /\ ft.log[Len(ft.log)].tag = "strcpy"
    /\ Len(ft.log[Len(ft.log)].args) = 8
    /\ EvalV(ft.log, ft.log[Len(ft.log)].args[5], NoBits, NoBits) = si
    /\ EvalV(ft.log, ft.log[Len(ft.log)].args[6], NoBits, NoBits) = sl
    /\ EvalV(ft.log, ft.log[Len(ft.log)].args[7], NoBits, NoBits) = di
    /\ EvalV(ft.log, ft.log[Len(ft.log)].args[8], NoBits, NoBits) = dl

\* C9 as stated: for MOVE A(3:) TO B, A of comp_size 11 and B an unspanned
\* string of five characters, strcpy is called with source span (2, 8) and
\* destination span (0, 4).
C9_DestSpanFour ==
    (MoveDone /\ input.mov = MoveA3ToB) => StrcpySpans(2, 8, 0, 4)

\* C9, amended: for MOVE A(3:) TO B, A of comp_size 11 and B an unspanned
\* string of five characters (comp_size 6), strcpy is called with source
\* span (2, 8) and destination span (0, 5), the five characters of B.
C9_DestSpanFive ==
    (MoveDone /\ input.mov = MoveA3ToB) =>
        /\ ~Failed(ft)
        /\ StrcpySpans(2, 8, 0, comp_size(sym_pic("B")) - 1)
        /\ comp_size(sym_pic("B")) - 1 = 5

\* MOVE A(3:) TO B was translated to a call of strcpy.
C9_Witness ==
    /\ MoveDone /\ ~Failed(ft)
    /\ input.mov = MoveA3ToB
    /\ comp_size(sym_pic("A")) = 11
    /\ ft.log[Len(ft.log)].tag = "strcpy"

\* The last operation was a MOVE of an intrinsic call's result.
IntrDone == MoveDone /\ input.mov.skind = "intrinsic"

\* The return type of the call does not match the destination's kind.
Mismatch ==
    \/ is_float_pic(sym_pic(input.mov.dest.sym)) /\ input.mov.call.ret # "F64"
    \/ is_str_pic(sym_pic(input.mov.dest.sym)) /\ input.mov.call.ret # ptr_type
    \/ /\ ~is_float_pic(sym_pic(input.mov.dest.sym))
       /\ ~is_str_pic(sym_pic(input.mov.dest.sym))
       /\ input.mov.call.ret # "I64"

\* An operand that is an integer variable or an integer literal.
IsIntOperand(x) == ~is_float(x) /\ ~is_str(x)

\* The stores the last operation emitted.
NewStores == {i \in NewIdx : ft.log[i].op = "store"}

\* The one store of the last operation puts the call's result at offset 0
\* of the destination.
OneStoreOfResult ==
    /\ Cardinality(NewStores) = 1
    /\ \A i \in NewStores :
          /\ i = Len(ft.log)
          /\ ft.log[i].imm = 0
          /\ Len(ft.log[i].args) = 2
          /\ ft.log[i].args[1] = Len(pre.log) + 1
          /\ ft.log[ft.log[i].args[1]].op = "call"
          /\ ft.log[ft.log[i].args[1]].tag = input.mov.call.name
          /\ ft.log[ft.log[i].args[2]].op = "global_value"
          /\ ft.log[ft.log[i].args[2]].imm = sym_data_id(input.mov.dest.sym)

\* What C10 says of a mismatch and of the stores.
IntrinsicTyped ==
    /\ Mismatch => (ft.err = IntrinsicDestMsg /\ NewStores = {})
    /\ NewStores # {} =>
          /\ ~Mismatch
          /\ ~is_str_pic(sym_pic(input.mov.dest.sym))
          /\ ~Failed(ft)
          /\ OneStoreOfResult
    /\ ~Failed(ft) => NewStores # {}
    /\ (~Mismatch /\ ~is_str_pic(sym_pic(input.mov.dest.sym))
           /\ ~input.mov.dest.span.has) => ~Failed(ft)

\* C10 as stated: an intrinsic move whose return type does not match the
\* destination fails with the mismatch diagnostic; a string destination
\* fails with the mismatch or the "unimplemented" error and emits no store;
\* only a type-matching float or integer destination yields exactly one
\* store of the result at offset 0.
C10_StringDestTwoErrors ==
    IntrDone =>
        /\ IntrinsicTyped
        /\ is_str_pic(sym_pic(input.mov.dest.sym)) =>
              /\ ft.err \in {IntrinsicDestMsg, StrIntrinsicMsg}
              /\ NewStores = {}

\* C10, amended: an intrinsic move whose return type does not match the
\* destination fails with the mismatch diagnostic; a string destination
\* never succeeds and emits no store: it fails with the mismatch
\* diagnostic, else with the diagnostic of MoveRef::validate when its span
\* has a non-integer bound, else with the "unimplemented" error; only a
\* type-matching float or integer destination yields exactly one store of
\* the result at offset 0.
C10_StringDestNeverSucceeds ==
    IntrDone =>
        /\ IntrinsicTyped
        /\ is_str_pic(sym_pic(input.mov.dest.sym)) =>
              /\ NewStores = {}
              /\ ft.err =
                    (IF Mismatch THEN IntrinsicDestMsg
                     ELSE IF input.mov.dest.span.has
                             /\ ~IsIntOperand(input.mov.dest.span.start)
                     THEN SpanStartMsg
                     ELSE IF input.mov.dest.span.has /\ input.mov.dest.span.haslen
                             /\ ~IsIntOperand(input.mov.dest.span.len)
                     THEN SpanLenMsg
                     ELSE StrIntrinsicMsg)

\* A pointer-typed result was moved to a string whose span starts at a
\* float: the span diagnostic, after the call and the destination pointer.
C10_Witness ==
    /\ IntrDone
    /\ input.mov.call.ret = ptr_type
    /\ input.mov.dest = MoveRef("A", SpanFrom(FloatLit(1)))
    /\ ft.err = SpanStartMsg
    /\ Len(ft.log) > Len(pre.log)

----------------------------------------------------------------------------
(* memory.rs: the value caches.                                            *)

\* The last operation was a loader call or a statement of SpecLoad.
LoadDone == phase = "load" /\ input.kind = "load"

\* The global-value declarations and the static-pointer materializations
\* of data id d.
Decls(d) == {i \in 1..Len(ft.log) : ft.log[i].op = "declare_data_in_func" /\ ft.log[i].imm = d}

Ptrs(d) == {i \in 1..Len(ft.log) : ft.log[i].op = "global_value" /\ ft.log[i].imm = d}

\* The data ids of the variables and of the string literals.
DataIds == {sym_data_id(sym) : sym \in Syms} \cup {str_data_id(sid) : sid \in StrIds}

\* The data id a loader call refers to, 0 when it refers to none.
RefOf(it) ==
    CASE it.fn = "load_var" -> sym_data_id(it.val.s)
      [] it.fn = "load_static_ptr" -> it.id
      [] it.fn = "load_lit" /\ it.val.k = "strlit" -> str_data_id(it.val.v)
      [] OTHER -> 0

\* The data ids the loader calls made so far refer to.
Referenced == {RefOf(e.item) : e \in input.seen} \ {0}

\* C11: after any sequence of load_var, load_lit, load_static_ptr and
\* MOVE / IF translations in one function, no data id has more than one
\* global-value declaration nor more than one static-pointer
\* materialization, and every data id that was referenced has exactly one
\* of each.
C11_OneDeclarationPerDataId ==
    LoadDone =>
        /\ \A d \in DataIds :
              /\ Cardinality(Decls(d)) <= 1
              /\ Cardinality(Ptrs(d)) = Cardinality(Decls(d))
        /\ \A d \in Referenced : Cardinality(Decls(d)) = 1 /\ Cardinality(Ptrs(d)) = 1
        /\ \A i \in 1..Len(ft.log) :
              ft.log[i].op \in {"declare_data_in_func", "global_value"}
                 => ft.log[i].imm \in DataIds

\* A was referenced by load_var, by load_static_ptr and by a MOVE, in one
\* function: one declaration, one pointer.
C11_Witness ==
    /\ LoadDone /\ ~Failed(ft)
    /\ budget = 0
    /\ input.item.fn = "stat"
    /\ input.item.id = 1
    /\ \E e \in input.seen : e.item.fn = "load_var" /\ e.item.val = Var("A")
    /\ \E e \in input.seen : e.item.fn = "load_static_ptr" /\ e.item.id = sym_data_id("A")
    /\ Cardinality(Ptrs(sym_data_id("A"))) = 1

\* The last operation repeated a loader call of this function.
Reloaded == LoadDone /\ input.again /\ ~Failed(ft)

\* C17 as stated: loading the same literal, the same variable or the same
\* global a second time in one function returns the IR value the first load
\* returned and emits no instruction.
C17_AllLoadersMemoize ==
    Reloaded => (ft.ret = input.first /\ ft.log = pre.log)

\* C17, amended: load_lit, load_cg_lit, load_static_ptr, and load_var of a
\* string variable return on a second load the IR value of the first and
\* emit nothing; load_var of an integer or float variable reuses the static
\* pointer (no new declaration, no new global_value) but emits one new load
\* instruction from it at every call, whose result is a new IR value.
C17_LoadersMemoizeButLoads ==
    Reloaded =>
        IF input.item.fn = "load_var" /\ ~is_str(input.item.val)
        THEN /\ Len(ft.log) = Len(pre.log) + 1
             /\ ft.ret = Len(ft.log)
             /\ ft.ret # input.first
             /\ ft.log[ft.ret].op = "load"
             /\ ft.log[ft.ret].ty = (IF is_float(input.item.val) THEN "F64" ELSE "I64")
             /\ ft.log[ft.ret].args = ft.log[input.first].args
             /\ ft.log[ft.log[ft.ret].args[1]].op = "global_value"
             /\ ft.log[ft.log[ft.ret].args[1]].imm = sym_data_id(input.item.val.s)
        ELSE ft.ret = input.first /\ ft.log = pre.log

\* The integer variable I was loaded a second time, after an integer
\* literal was loaded twice.
C17_Witness ==
    /\ Reloaded
    /\ input.item.fn = "load_var"
    /\ input.item.val = Var("I")
    /\ Len(ft.log) = Len(pre.log) + 1
    /\ \E e \in input.seen : e.item.fn = "load_var" /\ e.item.val = Var("I")

----------------------------------------------------------------------------
(* memory.rs: MOVE.                                                        *)

\* The diagnostic a MoveRef deserves: a span on a non-string variable, a
\* span start or a span length that is not an integer; "" when it is valid.
RefMsg(ref) ==
    IF ~ref.span.has THEN ""
    ELSE IF ~is_str_pic(sym_pic(ref.sym)) THEN SpanNonStrMsg
    ELSE IF ~IsIntOperand(ref.span.start) THEN SpanStartMsg
    ELSE IF ref.span.haslen /\ ~IsIntOperand(ref.span.len) THEN SpanLenMsg
    ELSE ""

\* The MoveRefs of a MOVE that are validated: the source when it is a
\* variable, then the destination.
MoveRefMsgs(mov) ==
    IF mov.skind = "ref" THEN <<RefMsg(mov.ref), RefMsg(mov.dest)>>
    ELSE <<RefMsg(mov.dest)>>

HasBadRef(mov) == \E k \in 1..Len(MoveRefMsgs(mov)) : MoveRefMsgs(mov)[k] # ""

\* The instructions the last operation emitted.
NewInsts == {i \in NewIdx : IsInst(ft.log[i])}

\* C12: for every MOVE (literal, variable or intrinsic source) one of whose
\* MoveRefs has a span on a non-string variable, or a span start or length
\* that is not an integer, translation fails with a span diagnostic and no
\* instruction (global_value, call, load, store, constant) has been emitted
\* for that MOVE.
C12_ValidateBeforeIR ==
    (MoveDone /\ HasBadRef(input.mov)) =>
        /\ ft.err \in {SpanNonStrMsg, SpanStartMsg, SpanLenMsg}
        /\ NewInsts = {}

\* What does hold of such a MOVE: it fails, and nothing but the intrinsic
\* call and static pointers has been emitted; a literal MOVE emits nothing.
C12_OnlyPointersBeforeValidate ==
    (MoveDone /\ HasBadRef(input.mov)) =>
        /\ Failed(ft)
        /\ \A i \in NewInsts :
              \/ ft.log[i].op = "global_value"
              \/ ft.log[i].op = "call" /\ input.mov.skind = "intrinsic"
        /\ input.mov.skind = "lit" =>
              /\ NewIdx = {}
              /\ ft.err \in {SpanNonStrMsg, SpanStartMsg, SpanLenMsg}

\* The stores, memcpy calls and intrinsic calls the last operation emitted.
NewMemcpys == {i \in NewIdx : ft.log[i].op = "call_memcpy"}

NewCalls == {i \in NewIdx : ft.log[i].op = "call"}

\* The last operation moved a string literal that fits into a string
\* variable with a valid reference.
StrLitMoved ==
    /\ MoveDone
    /\ input.mov.skind = "lit"
    /\ input.mov.lit.k = "strlit"
    /\ is_str_pic(sym_pic(input.mov.dest.sym))
    /\ Len(str_lits(input.mov.lit.v)) + 1 <= comp_size(sym_pic(input.mov.dest.sym))
    /\ RefMsg(input.mov.dest) = ""

\* Value v is the static pointer of data id d.
IsPtrOf(v, d) == ft.log[v].op = "global_value" /\ ft.log[v].imm = d

RefMoved == MoveDone /\ input.mov.skind = "ref"

\* Either side of the last MOVE is spanned.
Spanned == input.mov.ref.span.has \/ input.mov.dest.span.has

\* The span of a reference has a literal length of 1.
StaticOne(ref) == ref.span.has /\ ref.span.haslen /\ ref.span.len = IntLit(1)

\* The last operation was a MOVE of a string variable that no diagnostic
\* rejected.
StrRefMoved ==
    /\ RefMoved
    /\ is_str_pic(sym_pic(input.mov.ref.sym))
    /\ RefMsg(input.mov.ref) = ""
    /\ RefMsg(input.mov.dest) = ""
    /\ ft.err # IncompatibleVarMsg

\* The mechanism C15 names for the last MOVE.
MechanismOf(mov) ==
    IF mov.ref.span.has \/ mov.dest.span.has
    THEN IF (StaticOne(mov.ref) \/ StaticOne(mov.dest)) /\ comp_size(sym_pic(mov.dest.sym)) = 2
         THEN "charcpy"
         ELSE "strcpy"
    ELSE IF comp_size(sym_pic(mov.dest.sym)) = 2 THEN "charcpy" ELSE "memcpy"

\* The 0-based offset charcpy takes for a reference.
OffsetOf(ref, mem) == IF ref.span.has THEN ValOf(ref.span.start, mem) - 1 ELSE 0

\* The last instruction is the copy C15 names, with its arguments.
CopyEmitted ==
    /\ ~Failed(ft)
    /\ Cardinality(NewStores) + Cardinality(NewMemcpys) + Cardinality(NewCalls) = 1
    /\ IsPtrOf(ft.log[Len(ft.log)].args[IF MechanismOf(input.mov) = "memcpy" THEN 2 ELSE 1],
               sym_data_id(input.mov.ref.sym))
    /\ IsPtrOf(ft.log[Len(ft.log)].args[IF MechanismOf(input.mov) = "memcpy" THEN 1 ELSE 2],
               sym_data_id(input.mov.dest.sym))
    /\ CASE MechanismOf(input.mov) = "charcpy" ->
               /\ ft.log[Len(ft.log)].op = "call"
               /\ ft.log[Len(ft.log)].tag = "charcpy"
               /\ Len(ft.log[Len(ft.log)].args) = 4
               /\ \A mem \in [SpanVarIds -> 1..MaxSpan] :
                     /\ EvalV(ft.log, ft.log[Len(ft.log)].args[3], mem, NoBits)
                           = OffsetOf(input.mov.ref, mem)
                     /\ EvalV(ft.log, ft.log[Len(ft.log)].args[4], mem, NoBits)
                           = OffsetOf(input.mov.dest, mem)
         [] MechanismOf(input.mov) = "strcpy" ->
               /\ ft.log[Len(ft.log)].op = "call"
               /\ ft.log[Len(ft.log)].tag = "strcpy"
               /\ Len(ft.log[Len(ft.log)].args) = 8
         [] MechanismOf(input.mov) = "memcpy" ->
               /\ ft.log[Len(ft.log)].op = "call_memcpy"
               /\ EvalV(ft.log, ft.log[Len(ft.log)].args[3], NoBits, NoBits)
                     = comp_size(sym_pic(input.mov.ref.sym))

\* C15: a variable-to-variable MOVE whose source is a string picks exactly
\* one copy mechanism.  With a span on either side: charcpy iff a side's
\* span has a literal length of 1 and the destination's comp_size is 2,
\* else the 8-argument strcpy.  Without spans: charcpy with offsets (0, 0)
\* iff the destination's comp_size is 2, else a memcpy of the source's
\* comp_size bytes.  The charcpy offsets are the span start minus 1 for a
\* spanned side and 0 for an unspanned one.
C15_RefMechanism == StrRefMoved => CopyEmitted

\* What does hold: the same, of every such MOVE whose translation returns.
C15_RefMechanismWhenReturned == (StrRefMoved /\ ~Failed(ft)) => CopyEmitted

\* C16: a variable-to-variable MOVE without spans either reports the
\* size-mismatch error or emits only copies that fit the destination (a
\* memcpy of the source's comp_size bytes, at most the destination's
\* comp_size), so the assertion before the memcpy never fails; with a span
\* on either side no size-mismatch error is reported.
C16_NoOversizeCopy ==
    (RefMoved /\ RefMsg(input.mov.ref) = "" /\ RefMsg(input.mov.dest) = "") =>
        IF Spanned
        THEN ft.err # IncompatibleVarMsg
        ELSE \/ ft.err = IncompatibleVarMsg /\ NewMemcpys = {}
             \/ /\ ~Failed(ft)
                /\ \A i \in NewMemcpys :
                      EvalV(ft.log, ft.log[i].args[3], NoBits, NoBits)
                         <= comp_size(sym_pic(input.mov.dest.sym))

\* The calls of strcpy the last operation emitted.
NewStrcpys == {i \in NewCalls : ft.log[i].tag = "strcpy"}

\* Call i passes the destination's pointer second and, fourth, a constant
\* equal to the destination's usable capacity.
CanonicalStrcpy(i) ==
    /\ Len(ft.log[i].args) = 8
    /\ IsPtrOf(ft.log[i].args[2], sym_data_id(input.mov.dest.sym))
    /\ EvalV(ft.log, ft.log[i].args[4], NoBits, NoBits)
          = comp_size(sym_pic(input.mov.dest.sym)) - 1

\* C18: every call of strcpy, from the literal site and from the variable
\* site, has the eight arguments of the one signature, and its fourth
\* argument dest_len is the destination's comp_size minus 1.
C18_StrcpyDestLen == MoveDone => \A i \in NewStrcpys : CanonicalStrcpy(i)

\* What does hold: the literal site passes comp_size - 1, the variable
\* site passes comp_size.
C18_DestLenPerSite ==
    MoveDone => \A i \in NewStrcpys :
        /\ Len(ft.log[i].args) = 8
        /\ IsPtrOf(ft.log[i].args[2], sym_data_id(input.mov.dest.sym))
        /\ EvalV(ft.log, ft.log[i].args[4], NoBits, NoBits)
              = comp_size(sym_pic(input.mov.dest.sym))
                   - (IF input.mov.skind = "lit" THEN 1 ELSE 0)

C18_Witness == MoveDone /\ input.mov.skind = "lit" /\ NewStrcpys # {}

----------------------------------------------------------------------------
(* The control-flow graph the emitted branches and jumps describe.         *)

\* The blocks one step away from `seen`, block `without` left out.
CfgStep(log, seen, without) ==
    seen \cup {b \in 0..Len(log) :
                 /\ b # without
                 /\ \E i \in 1..Len(log) :
                       /\ log[i].op \in {"brif", "jump"}
                       /\ log[i].in \in seen
                       /\ \E k \in 1..Len(log[i].blks) : log[i].blks[k] = b}

\* The blocks reachable from `seen` on paths that avoid `without`.
RECURSIVE CfgReach(_, _, _)
CfgReach(log, seen, without) ==
    IF CfgStep(log, seen, without) = seen THEN seen
    ELSE CfgReach(log, CfgStep(log, seen, without), without)

\* Block a dominates block b: every path from the entry block 0 to b goes
\* through a.
Dominates(log, a, b) ==
    \/ a = b
    \/ b \notin CfgReach(log, IF a = 0 THEN {} ELSE {0}, a)

\* The uses of a value (the result of an instruction; the global value of
\* a data declaration belongs to the function, not to a block) outside the
\* blocks its defining block dominates.
BadUses ==
    {j \in 1..Len(ft.log) :
        /\ IsInst(ft.log[j])
        /\ \E k \in 1..Len(ft.log[j].args) :
              /\ IsInst(ft.log[ft.log[j].args[k]])
              /\ ~Dominates(ft.log, ft.log[ft.log[j].args[k]].in, ft.log[j].in)}

\* C19: after any sequence of MOVE and IF translations in one function,
\* every value an instruction uses was emitted in the block of the
\* instruction or in a block that dominates it; no value first emitted in
\* a then-branch is used, through a cache, in the else-branch or in the
\* trailing block.
C19_CachedValuesDominate == phase = "stat" => BadUses = {}

\* The instructions inserted into block b, and its terminators.
InstsIn(b) == {i \in 1..Len(ft.log) : IsInst(ft.log[i]) /\ ft.log[i].in = b}

Terms(b) == {i \in InstsIn(b) : ft.log[i].op \in {"brif", "jump"}}

\* The last instruction inserted before event i.
LastInstBefore(i) ==
    CHOOSE j \in 1..(i - 1) :
        /\ IsInst(ft.log[j])
        /\ \A k \in (j + 1)..(i - 1) : ~IsInst(ft.log[k])

\* The block that translate_if creates last.
TrailingOf(if_data) == pre.nblk + (IF if_data.else_stats.some THEN 2 ELSE 1)

\* C20: after a successful translate_if, nested IFs included: the block
\* current at entry ends with the brif, the only terminator this IF put
\* there; every block created, the trailing one excepted, received
\* instructions and ends with its one terminator, nothing inserted after
\* it; a block is left only after its terminator, which is the jump of a
\* statement that jumps by itself or the closing jump to a trailing block,
\* never both; the current block is trailing_block, still empty.
C20_OneTerminatorPerBlock ==
    (IfDone /\ ~Failed(ft)) =>
        /\ \E i \in NewIdx :
              /\ ft.log[i].op = "brif"
              /\ Terms(pre.cur) \cap NewIdx = {i}
              /\ \A j \in InstsIn(pre.cur) : j <= i
        /\ \A b \in NewBlocks \ {ft.cur} :
              /\ Cardinality(Terms(b)) = 1
              /\ \A i \in Terms(b) : \A j \in InstsIn(b) : j <= i
        /\ \A i \in NewIdx :
              ft.log[i].op = "switch_to_block" =>
                 /\ ft.log[LastInstBefore(i)].in = ft.log[i].in
                 /\ ft.log[LastInstBefore(i)].op \in {"brif", "jump"}
        /\ \A i \in NewIdx :
              (ft.log[i].op = "jump" /\ ft.log[i].tag # "goto") =>
                 /\ ft.log[i].blks[1] \in NewBlocks
                 /\ ft.log[i].blks[1] # ft.log[i].in
        /\ ft.cur = TrailingOf(input)
        /\ InstsIn(ft.cur) = {}

\* An IF with an else and a nested IF, one branch ending with a GO TO.
C20_Witness ==
    /\ IfDone /\ ~Failed(ft)
    /\ input.else_stats.some
    /\ ft.nblk - pre.nblk >= 5
    /\ \E i \in NewIdx : ft.log[i].op = "jump" /\ ft.log[i].tag = "goto"

----------------------------------------------------------------------------
(* memory.rs: the round trip of two variables of one PIC.                   *)

\* Both moves were translated and executed.
RoundDone == phase = "ba_run"

\* The cells of a that MOVE a TO b copies into b: the first byte when the
\* PIC is a string of comp_size 2 (charcpy), all of them otherwise.
Copied(sym) ==
    IF is_str_pic(sym_pic(sym)) /\ comp_size(sym_pic(sym)) = 2
    THEN {1}
    ELSE 1..CellCount(sym)

\* C13 as stated: after MOVE a TO b and MOVE b TO a the memory is the
\* initial memory, whatever a and b held.
C13_RoundTripIdentity == RoundDone => input.mem2 = input.mem0

\* C13, amended: after MOVE a TO b and MOVE b TO a, a holds what it held
\* initially, b holds the bytes of a the first MOVE copied and keeps its
\* other bytes, and the second MOVE changed nothing; the memory is the
\* initial memory exactly when b already held those bytes of a.
C13_RoundTripKeepsSource ==
    RoundDone =>
        /\ input.mem2[sym_data_id(input.a)] = input.mem0[sym_data_id(input.a)]
        /\ \A k \in 1..CellCount(input.b) :
              input.mem2[sym_data_id(input.b)][k]
                 = IF k \in Copied(input.a)
                   THEN input.mem0[sym_data_id(input.a)][k]
                   ELSE input.mem0[sym_data_id(input.b)][k]
        /\ input.mem2 = input.mem1
        /\ (input.mem2 = input.mem0) <=>
              \A k \in Copied(input.a) :
                 input.mem0[sym_data_id(input.b)][k] = input.mem0[sym_data_id(input.a)][k]

\* Two strings copied by memcpy that differed initially.
C13_Witness ==
    /\ RoundDone
    /\ is_str_pic(sym_pic(input.a))
    /\ comp_size(sym_pic(input.a)) > 2
    /\ input.mem0[sym_data_id(input.a)] # input.mem0[sym_data_id(input.b)]
    /\ \E i \in 1..Len(ft.log) : ft.log[i].op = "call_memcpy"

=============================================================================
